---- MODULE Spec2Model ----
(***************************************************************************)
(* A model of goerrorkit: the typed error model (error.go), the panic and  *)
(* error converter (handler.go), the stack-trace filter (stacktrace.go),   *)
(* the log router and response formatter (logger.go) and the Fiber         *)
(* middleware (adapters/fiber/middleware.go).                              *)
(*                                                                         *)
(* Go strings are TLA+ strings and are searched character by character, so *)
(* that prefix and substring matching behave as strings.HasPrefix and      *)
(* strings.Contains do.                                                    *)
(***************************************************************************)
EXTENDS Integers, Sequences, FiniteSets, TLC

VARIABLES
    defaultConfig,   \* stacktrace.go: the process-wide filter configuration
    defaultLogger,   \* logger.go: the process-wide logger, nil until one is set
    heap,            \* the *AppError objects allocated so far; a pointer is an index, 0 is nil
    origin,          \* history: for each object, the operation that built it and its caller's message
    last,            \* the last operation applied, with its inputs and results
    reqs             \* the requests the middleware has handled, with what each one did

vars == <<defaultConfig, defaultLogger, heap, origin, last, reqs>>

----------------------------------------------------------------------------
(* Package strings, fmt, path/filepath.                                    *)

\* s[i:j] of Go (0-based, j exclusive)
Slice(s, i, j) == SubSeq(s, i + 1, j)

\* strings.HasPrefix
HasPrefix(s, p) == Len(p) <= Len(s) /\ SubSeq(s, 1, Len(p)) = p

\* strings.Contains
Contains(s, p) ==
    \E i \in 1..(Len(s) - Len(p) + 1) : SubSeq(s, i, i + Len(p) - 1) = p

\* strings.Index: 0-based index of the first occurrence of p, -1 when absent
Index(s, p) ==
    LET hits == {i \in 1..(Len(s) - Len(p) + 1) : SubSeq(s, i, i + Len(p) - 1) = p}
    IN  IF hits = {} THEN -1
        ELSE (CHOOSE i \in hits : \A j \in hits : i <= j) - 1

\* strings.LastIndex: 0-based index of the last occurrence of p, -1 when absent
LastIndex(s, p) ==
    LET hits == {i \in 1..(Len(s) - Len(p) + 1) : SubSeq(s, i, i + Len(p) - 1) = p}
    IN  IF hits = {} THEN -1
        ELSE (CHOOSE i \in hits : \A j \in hits : i >= j) - 1

IsSpace(c) == c = " " \/ c = "\t"

\* strings.TrimSpace
RECURSIVE TrimLeft(_)
TrimLeft(s) ==
    IF Len(s) > 0 /\ IsSpace(SubSeq(s, 1, 1)) THEN TrimLeft(SubSeq(s, 2, Len(s))) ELSE s

RECURSIVE TrimRight(_)
TrimRight(s) ==
    IF Len(s) > 0 /\ IsSpace(SubSeq(s, Len(s), Len(s)))
    THEN TrimRight(SubSeq(s, 1, Len(s) - 1)) ELSE s

TrimSpace(s) == TrimRight(TrimLeft(s))

\* the length of the first space-free run of t
RECURSIVE FieldLen(_, _)
FieldLen(t, n) ==
    IF n < Len(t) /\ ~IsSpace(SubSeq(t, n + 1, n + 1)) THEN FieldLen(t, n + 1) ELSE n

\* strings.Fields(s)[0]; "" stands for len(parts) = 0
FirstField(s) ==
    LET t == TrimSpace(s)
    IN  SubSeq(t, 1, FieldLen(t, 0))

Digits == <<"0", "1", "2", "3", "4", "5", "6", "7", "8", "9">>

IsDigit(c) == \E d \in 1..10 : Digits[d] = c

DigitVal(c) == (CHOOSE d \in 1..10 : Digits[d] = c) - 1

\* fmt.Sscanf(s, "%d", &line): the decimal value of the leading digits of s;
\* the variable keeps its zero value when s does not start with a digit
RECURSIVE ScanDigits(_, _)
ScanDigits(s, acc) ==
    IF Len(s) = 0 \/ ~IsDigit(SubSeq(s, 1, 1)) THEN acc
    ELSE ScanDigits(SubSeq(s, 2, Len(s)), acc * 10 + DigitVal(SubSeq(s, 1, 1)))

Sscanf(s) == ScanDigits(s, 0)

\* the %d verb of fmt.Sprintf for a non-negative int
RECURSIVE Itoa(_)
Itoa(n) == IF n < 10 THEN Digits[n + 1] ELSE Itoa(n \div 10) \o Digits[(n % 10) + 1]

\* filepath.Base for a slash-separated path without trailing slash
Base(path) ==
    IF path = "" THEN "."
    ELSE SubSeq(path, LastIndex(path, "/") + 2, Len(path))

----------------------------------------------------------------------------
(* stacktrace.go: the filter configuration and the stack-trace filter.     *)

InitialConfig ==
    [SkipPackages    |-> <<"runtime", "runtime/debug">>,
     SkipFunctions   |-> <<"formatStackTraceArray", "getActualPanicLocation",
                           "HandlePanic", ".func">>,
     IncludePackages |-> <<>>,
     ShowFullPath    |-> FALSE]

Range(q) == {q[i] : i \in 1..Len(q)}

\* isUserFunction(line)
isUserFunction(line) ==
    IF HasPrefix(line, "runtime.") \/ HasPrefix(line, "runtime/debug.") THEN FALSE
    ELSE IF Len(defaultConfig.IncludePackages) > 0
         THEN \E pkg \in Range(defaultConfig.IncludePackages) :
                  HasPrefix(line, pkg \o ".") \/ Contains(line, pkg \o ".")
         ELSE ~\E pkg \in Range(defaultConfig.SkipPackages) :
                  HasPrefix(line, pkg \o ".") \/ Contains(line, pkg \o ".")

\* shouldSkipFunction(line)
shouldSkipFunction(line) ==
    \E skipFunc \in Range(defaultConfig.SkipFunctions) : Contains(line, skipFunc)

\* strings.Split(s, sep) for a non-empty sep
RECURSIVE Split(_, _)
Split(s, sep) ==
    IF Index(s, sep) < 0 THEN <<s>>
    ELSE <<Slice(s, 0, Index(s, sep))>>
             \o Split(Slice(s, Index(s, sep) + Len(sep), Len(s)), sep)

middlewarePatterns ==
    <<".main.New.func", ".main.Use.func", ".Handler.func", ".Middleware.func",
      ".Next.func", ".middleware.func", ".recover.func", ".logger.func">>

\* isMiddlewareAnonymousFunc(line) of the stack-trace filter with the
\* middleware heuristic
isMiddlewareAnonymousFunc(line) ==
    IF ~Contains(line, ".func") THEN FALSE
    ELSE LET parts == Split(line, ".") IN
         \/ /\ Len(parts) >= 4
            /\ \E i \in 0..(Len(parts) - 2) : Contains(parts[i + 2], "func")
         \/ \E k \in 1..Len(middlewarePatterns) : Contains(line, middlewarePatterns[k])

\* shouldSkipFunction(line) of the stack-trace filter with the middleware
\* heuristic: the skip patterns first, then isMiddlewareAnonymousFunc
shouldSkipFunctionOrMiddleware(line) ==
    \/ \E skipFunc \in Range(defaultConfig.SkipFunctions) : Contains(line, skipFunc)
    \/ isMiddlewareAnonymousFunc(line)

\* formatFunctionName(fullName)
formatFunctionName(fullName) ==
    IF defaultConfig.ShowFullPath THEN fullName
    ELSE SubSeq(fullName, LastIndex(fullName, "/") + 2, Len(fullName))

\* the function name with its parameter part cut: function[:idx] when idx > 0
CutParams(l) == IF Index(l, "(") > 0 THEN Slice(l, 0, Index(l, "(")) ELSE l

Unknown == [file |-> "unknown", line |-> 0, function |-> "unknown"]

\* the loop of getActualPanicLocation over the lines of debug.Stack()
RECURSIVE PanicScan(_, _, _)
PanicScan(lines, i, panicFound) ==
    IF i > Len(lines) THEN [file |-> "", line |-> 0, function |-> ""]
    ELSE LET l == TrimSpace(lines[i]) IN
         IF ~panicFound /\ HasPrefix(l, "panic(") THEN PanicScan(lines, i + 1, TRUE)
         ELSE IF panicFound /\ isUserFunction(l)
         THEN LET function == formatFunctionName(CutParams(l))
                  fileAndLine == IF i + 1 <= Len(lines) THEN FirstField(lines[i + 1]) ELSE ""
                  idx == LastIndex(fileAndLine, ":")
              IN  IF fileAndLine # "" /\ idx > 0
                  THEN [file     |-> Base(Slice(fileAndLine, 0, idx)),
                        line     |-> Sscanf(Slice(fileAndLine, idx + 1, Len(fileAndLine))),
                        function |-> function]
                  ELSE [file |-> "", line |-> 0, function |-> function]
         ELSE PanicScan(lines, i + 1, panicFound)

\* the loop of a finder that also applies shouldSkipFunction
RECURSIVE PanicScan_SkipFunctions(_, _, _)
PanicScan_SkipFunctions(lines, i, panicFound) ==
    IF i > Len(lines) THEN [file |-> "", line |-> 0, function |-> ""]
    ELSE LET l == TrimSpace(lines[i]) IN
         IF ~panicFound /\ HasPrefix(l, "panic(") THEN PanicScan_SkipFunctions(lines, i + 1, TRUE)
         ELSE IF panicFound /\ isUserFunction(l) /\ ~shouldSkipFunction(l)
         THEN LET function == formatFunctionName(CutParams(l))
                  fileAndLine == IF i + 1 <= Len(lines) THEN FirstField(lines[i + 1]) ELSE ""
                  idx == LastIndex(fileAndLine, ":")
              IN  IF fileAndLine # "" /\ idx > 0
                  THEN [file     |-> Base(Slice(fileAndLine, 0, idx)),
                        line     |-> Sscanf(Slice(fileAndLine, idx + 1, Len(fileAndLine))),
                        function |-> function]
                  ELSE [file |-> "", line |-> 0, function |-> function]
         ELSE PanicScan_SkipFunctions(lines, i + 1, panicFound)

\* getActualPanicLocation that passes over the frames shouldSkipFunction names
getActualPanicLocation_SkipFunctions(lines) ==
    LET r == PanicScan_SkipFunctions(lines, 1, FALSE)
    IN  IF r.file = "" THEN Unknown ELSE r

\* getActualPanicLocation()
getActualPanicLocation(lines) ==
    LET r == PanicScan(lines, 1, FALSE)
    IN  IF r.file = "" THEN Unknown ELSE r

\* the loop of formatStackTraceArray over the lines of debug.Stack()
RECURSIVE ChainScan(_, _, _, _)
ChainScan(lines, i, skipNext, callChain) ==
    IF i > Len(lines) THEN callChain
    ELSE LET l == TrimSpace(lines[i]) IN
         IF skipNext THEN ChainScan(lines, i + 1, FALSE, callChain)
         ELSE IF isUserFunction(l) /\ ~shouldSkipFunction(l)
         THEN LET funcName == formatFunctionName(CutParams(l))
                  field == IF i + 1 <= Len(lines) THEN FirstField(lines[i + 1]) ELSE ""
                  fileAndLine == IF LastIndex(field, "/") >= 0
                                 THEN Slice(field, LastIndex(field, "/") + 1, Len(field))
                                 ELSE field
              IN  ChainScan(lines, i + 1, TRUE,
                            IF field # ""
                            THEN Append(callChain, funcName \o " (" \o fileAndLine \o ")")
                            ELSE callChain)
         ELSE ChainScan(lines, i + 1, FALSE, callChain)

\* formatStackTraceArray()
formatStackTraceArray(lines) == ChainScan(lines, 1, FALSE, <<>>)

----------------------------------------------------------------------------
(* The text of debug.Stack(): a header line, then for each frame, innermost *)
(* first, a function line and a tab-indented location line, then the empty *)
(* string that strings.Split leaves after the final newline.  A frame      *)
(* carries its qualified name, its argument text, and the directory, file  *)
(* and line of its location.                                               *)

Frame(name, args, dir, file, line) ==
    [name |-> name, args |-> args, dir |-> dir, file |-> file, line |-> line]

FuncLine(f) == f.name \o f.args

LocLine(f) == "\t" \o f.dir \o "/" \o f.file \o ":" \o Itoa(f.line) \o " +0x1f"

RECURSIVE FrameLines(_)
FrameLines(frames) ==
    IF frames = <<>> THEN <<>>
    ELSE <<FuncLine(Head(frames)), LocLine(Head(frames))>> \o FrameLines(Tail(frames))

DebugStack(frames) == <<"goroutine 1 [running]:">> \o FrameLines(frames) \o <<"">>

GoRoot == "/usr/local/go/src"
KitPkg == "github.com/techmaster-vietnam/goerrorkit"
KitDir == "/go/pkg/mod/github.com/techmaster-vietnam/goerrorkit"
FiberPkg == "github.com/gofiber/fiber/v2"
FiberDir == "/go/pkg/mod/github.com/gofiber/fiber/v2"

\* frames of the Go runtime
FStack == Frame("runtime/debug.Stack", "()", GoRoot \o "/runtime/debug", "stack.go", 24)
FPanic == Frame("panic", "({0x1, 0x2})", GoRoot \o "/runtime", "panic.go", 884)
FIndexError == Frame("runtime.goPanicIndexError", "(0xa, 0x3)", GoRoot \o "/runtime", "panic.go", 113)
FGoexit == Frame("runtime.goexit", "({})", GoRoot \o "/runtime", "asm_amd64.s", 1650)

\* frames of the library and of its Fiber adapter
FLocation == Frame(KitPkg \o ".getActualPanicLocation", "()", KitDir, "stacktrace.go", 73)
FChain == Frame(KitPkg \o ".formatStackTraceArray", "()", KitDir, "stacktrace.go", 125)
FHandlePanic == Frame(KitPkg \o ".HandlePanic", "({0x1, 0x2}, {0x3, 0x7})", KitDir, "handler.go", 19)
FWithCallChain == Frame(KitPkg \o ".(*AppError).WithCallChain", "(0xc0001)", KitDir, "error.go", 74)
FDeferred == Frame(KitPkg \o "/adapters/fiber.ErrorHandler.func1.1", "()", KitDir \o "/adapters/fiber", "middleware.go", 36)
FMiddleware == Frame(KitPkg \o "/adapters/fiber.ErrorHandler.func1", "(0xc0002)", KitDir \o "/adapters/fiber", "middleware.go", 42)

\* frames of the web framework
FNext == Frame(FiberPkg \o ".(*Ctx).Next", "(0xc0002)", FiberDir, "ctx.go", 1030)
FServe == Frame(FiberPkg \o ".(*App).handler", "(0xc0003, 0xc0004)", FiberDir, "app.go", 1142)

\* below the handler: the framework, the middleware, the framework, the runtime
OuterFrames == <<FNext, FMiddleware, FServe, FGoexit>>

----------------------------------------------------------------------------
(* error.go: the error model.  A value of the interface type error is its  *)
(* dynamic type with the message of a plain error or the pointer of an     *)
(* *AppError; the interface value is nil only when it has no dynamic type, *)
(* so a nil *AppError stored in an error is not nil.                       *)

NilError == [dyn |-> "nil", msg |-> "", ptr |-> 0]
PlainError(m) == [dyn |-> "*errors.errorString", msg |-> m, ptr |-> 0]
AppErrorValue(p) == [dyn |-> "*AppError", msg |-> "", ptr |-> p]

\* a nil map
NilMap == <<>>

\* the outcomes of a call other than a returned object
NilObject == [nil |-> TRUE]
Panicked == [panic |-> TRUE]
IsObject(r) == "Type" \in DOMAIN r

BusinessError == "BUSINESS"
SystemError == "SYSTEM"
ValidationError == "VALIDATION"
AuthError == "AUTH"
ExternalError == "EXTERNAL"
PanicError == "PANIC"

ErrorTypes == {BusinessError, SystemError, ValidationError, AuthError, ExternalError, PanicError}

\* getCallerInfo(1) in a factory called at `site`: runtime.Caller gives the
\* caller's file, line and function
getCallerInfo(site) ==
    [file |-> Base(site.file), line |-> site.line, function |-> formatFunctionName(site.function)]

\* the Details every factory builds from getCallerInfo(1)
CallerDetails(site) ==
    LET ci == getCallerInfo(site)
    IN  [function |-> ci.function, file |-> ci.file \o ":" \o Itoa(ci.line)]

AppError(type, code, message, details, data, cause, requestID) ==
    [Type |-> type, Code |-> code, Message |-> message, Details |-> details,
     Data |-> data, Cause |-> cause, RequestID |-> requestID, logLevel |-> ""]

\* err.Error() of a non-nil plain error
ErrorText(err) == err.msg

\* Wrap without its nil check: an object is built even for a nil err
Wrap_NoNilCheck(err, site) ==
    AppError(SystemError, 500, ErrorText(err), CallerDetails(site), NilMap, err, "")

\* Wrap(err) called at `site`
Wrap(err, site) ==
    IF err = NilError THEN NilObject
    ELSE AppError(SystemError, 500, ErrorText(err), CallerDetails(site), NilMap, err, "")

\* WrapWithMessage(err, message) called at `site`
WrapWithMessage(err, message, site) ==
    IF err = NilError THEN NilObject
    ELSE AppError(SystemError, 500, message, CallerDetails(site), NilMap, err, "")

NewBusinessError(code, msg, site) ==
    AppError(BusinessError, code, msg, CallerDetails(site), NilMap, NilError, "")

NewSystemError(err, site) ==
    AppError(SystemError, 500, "Internal server error", CallerDetails(site), NilMap, err, "")

NewValidationError(msg, data, site) ==
    AppError(ValidationError, 400, msg, CallerDetails(site), data, NilError, "")

NewAuthError(code, msg, site) ==
    AppError(AuthError, code, msg, CallerDetails(site), NilMap, NilError, "")

NewExternalError(code, msg, cause, site) ==
    AppError(ExternalError, code, msg, CallerDetails(site), NilMap, cause, "")

\* package core: its AppError has neither Data nor a severity override
CoreAppError(type, code, message, details, cause, requestID) ==
    [Type |-> type, Code |-> code, Message |-> message, Details |-> details,
     Cause |-> cause, RequestID |-> requestID]

\* core.NewValidationError(msg, details) called at `site`: function and file
\* are assigned into the caller's map, which becomes Details
CoreNewValidationError(msg, details, site) ==
    CoreAppError(ValidationError, 400, msg, CallerDetails(site) @@ details, NilError, "")

\* WithData that merges the map into the data already attached
WithData_Merge(e, data) == [e EXCEPT !.Data = data @@ @]

\* (*AppError).WithData(data)
WithData(e, data) == [e EXCEPT !.Data = data]

\* WithCallChain that stores the call chain with the caller's data
WithCallChain_IntoData(e, lines) ==
    [e EXCEPT !.Data = [call_chain |-> formatStackTraceArray(lines)] @@ @]

\* (*AppError).WithCallChain(), where lines are the lines of the
\* debug.Stack() capture it makes; a nil Details becomes a map first
WithCallChain(e, lines) ==
    [e EXCEPT !.Details = [call_chain |-> formatStackTraceArray(lines)] @@ @]

\* Level that keeps an override already set
Level_KeepFirst(e, level) ==
    IF e.logLevel = "" THEN [e EXCEPT !.logLevel = level] ELSE e

\* (*AppError).Level(level)
Level(e, level) == [e EXCEPT !.logLevel = level]

\* GetLogLevel without the per-kind defaults
GetLogLevel_AlwaysError(e) ==
    IF e.logLevel # "" THEN e.logLevel ELSE "error"

\* (*AppError).GetLogLevel()
GetLogLevel(e) ==
    IF e.logLevel # "" THEN e.logLevel
    ELSE CASE e.Type \in {ValidationError, AuthError} -> "warn"
           [] e.Type \in {PanicError, SystemError} -> "error"
           [] e.Type \in {BusinessError, ExternalError} -> "error"
           [] OTHER -> "error"

----------------------------------------------------------------------------
(* handler.go: the panic and error converter.                              *)

\* a recovered panic value: a string, a runtime.Error or an int
PanicOfString(t) == [kind |-> "string", text |-> t, n |-> 0]
PanicOfError(t) == [kind |-> "runtime.Error", text |-> t, n |-> 0]
PanicOfInt(n) == [kind |-> "int", text |-> "", n |-> n]

\* fmt.Sprintf("%v", r): a string prints as itself, an error as its Error()
\* text, an int in decimal
Stringify(r) == IF r.kind = "int" THEN Itoa(r.n) ELSE r.text

\* HandlePanic(r, requestID), where locationLines and chainLines are the lines
\* of the two debug.Stack() captures it makes
HandlePanic(r, requestID, locationLines, chainLines) ==
    LET actual == getActualPanicLocation(locationLines)
        callChain == formatStackTraceArray(chainLines)
    IN  AppError(PanicError, 500, "Panic recovered: " \o Stringify(r),
                 [panic_value |-> r,
                  function    |-> actual.function,
                  file        |-> actual.file \o ":" \o Itoa(actual.line),
                  call_chain  |-> callChain],
                 NilMap, NilError, requestID)

\* ConvertToAppError that returns a copy of an *AppError instead of the object
ConvertToAppError_Copy(h, err, requestID) ==
    IF err.dyn = "*AppError"
    THEN IF err.ptr = 0
         THEN [heap |-> h, ret |-> 0, panicked |-> TRUE]
         ELSE [heap |-> Append(h, [h[err.ptr] EXCEPT !.RequestID = requestID]),
               ret |-> Len(h) + 1, panicked |-> FALSE]
    ELSE [heap |-> Append(h, AppError(SystemError, 500, "Internal server error",
                                      NilMap, NilMap, err, requestID)),
          ret |-> Len(h) + 1, panicked |-> FALSE]

\* ConvertToAppError that takes the message of the converted error
ConvertToAppError_CauseMessage(h, err, requestID) ==
    IF err.dyn = "*AppError"
    THEN IF err.ptr = 0
         THEN [heap |-> h, ret |-> 0, panicked |-> TRUE]
         ELSE [heap |-> [h EXCEPT ![err.ptr].RequestID = requestID],
               ret |-> err.ptr, panicked |-> FALSE]
    ELSE [heap |-> Append(h, AppError(SystemError, 500, ErrorText(err),
                                      NilMap, NilMap, err, requestID)),
          ret |-> Len(h) + 1, panicked |-> FALSE]

\* ConvertToAppError(err, requestID) on heap h: the heap afterwards, the
\* returned pointer, and whether the call panicked (the assignment through a
\* nil *AppError)
ConvertToAppError(h, err, requestID) ==
    IF err.dyn = "*AppError"
    THEN IF err.ptr = 0
         THEN [heap |-> h, ret |-> 0, panicked |-> TRUE]
         ELSE [heap |-> [h EXCEPT ![err.ptr].RequestID = requestID],
               ret |-> err.ptr, panicked |-> FALSE]
    ELSE [heap |-> Append(h, AppError(SystemError, 500, "Internal server error",
                                      NilMap, NilMap, err, requestID)),
          ret |-> Len(h) + 1, panicked |-> FALSE]

----------------------------------------------------------------------------
(* logger.go: the response formatter.                                      *)

\* FormatErrorResponse with the request id in the payload
FormatErrorResponse_WithRequestID(appErr) ==
    [error |-> appErr.Message, type |-> appErr.Type, request_id |-> appErr.RequestID]

\* FormatErrorResponse(appErr)
FormatErrorResponse(appErr) == [error |-> appErr.Message, type |-> appErr.Type]

\* the nil value of the interface type Logger
NilLogger == [impl |-> "nil"]

\* LoggerMethod that sends an unknown level to Warn
LoggerMethod_WarnFallback(logLevel) ==
    CASE logLevel = "panic" -> "Panic"
      [] logLevel = "error" -> "Error"
      [] logLevel = "warn"  -> "Warn"
      [] logLevel = "info"  -> "Info"
      [] logLevel = "debug" -> "Debug"
      [] logLevel = "trace" -> "Trace"
      [] OTHER -> "Warn"

\* the method of the Logger interface LogError calls for a level
LoggerMethod(logLevel) ==
    CASE logLevel = "panic" -> "Panic"
      [] logLevel = "error" -> "Error"
      [] logLevel = "warn"  -> "Warn"
      [] logLevel = "info"  -> "Info"
      [] logLevel = "debug" -> "Debug"
      [] logLevel = "trace" -> "Trace"
      [] OTHER -> "Error"

\* LogError(appErr, requestPath) with defaultLogger = logger: the calls it
\* makes on the logger.  Later assignments to fields overwrite earlier ones.
LogError(logger, appErr, requestPath) ==
    IF logger = NilLogger THEN <<>>
    ELSE LET base == [error_type |-> appErr.Type, path |-> requestPath]
             data == IF appErr.Data # NilMap THEN [data |-> appErr.Data] ELSE <<>>
             cause == IF appErr.Cause # NilError
                      THEN [cause |-> ErrorText(appErr.Cause)] ELSE <<>>
         IN  <<[method  |-> LoggerMethod(GetLogLevel(appErr)),
                message |-> appErr.Message,
                fields  |-> cause @@ data @@ appErr.Details @@ base]>>

\* LogAndRespond with the response written before the log
LogAndRespond_RespondFirst(h, logger, p, requestPath) ==
    <<[ev |-> "Respond", obj |-> p, status |-> h[p].Code,
       body |-> FormatErrorResponse(h[p])],
      [ev |-> "LogError", obj |-> p, calls |-> LogError(logger, h[p], requestPath)]>>

\* LogAndRespond that answers only when a logger is set
LogAndRespond_OnlyWithLogger(h, logger, p, requestPath) ==
    <<[ev |-> "LogError", obj |-> p, calls |-> LogError(logger, h[p], requestPath)]>>
    \o (IF logger = NilLogger THEN <<>>
        ELSE <<[ev |-> "Respond", obj |-> p, status |-> h[p].Code,
                body |-> FormatErrorResponse(h[p])]>>)

\* LogAndRespond(ctx, appErr, requestPath) for the object at p of heap h: the
\* call of LogError, then the response written to ctx
LogAndRespond(h, logger, p, requestPath) ==
    <<[ev |-> "LogError", obj |-> p, calls |-> LogError(logger, h[p], requestPath)],
      [ev |-> "Respond", obj |-> p, status |-> h[p].Code,
       body |-> FormatErrorResponse(h[p])]>>

----------------------------------------------------------------------------
(* The logrus logger of the package: a console logger and a file logger,   *)
(* each with a level of its own.  A logrus level is a number, panic 0 to   *)
(* trace 6, and a logger writes an entry when its level is at least the    *)
(* entry's.                                                                *)

PanicLevel == 0
FatalLevel == 1
ErrorLevel == 2
WarnLevel == 3
InfoLevel == 4
DebugLevel == 5
TraceLevel == 6

\* a logger that was not created
NoLogger == 0 - 1

\* logrus.ParseLevel: the level and whether the name is one
ParseLevel(lvl) ==
    CASE lvl = "panic" -> [level |-> PanicLevel, err |-> FALSE]
      [] lvl = "fatal" -> [level |-> FatalLevel, err |-> FALSE]
      [] lvl = "error" -> [level |-> ErrorLevel, err |-> FALSE]
      [] lvl \in {"warn", "warning"} -> [level |-> WarnLevel, err |-> FALSE]
      [] lvl = "info" -> [level |-> InfoLevel, err |-> FALSE]
      [] lvl = "debug" -> [level |-> DebugLevel, err |-> FALSE]
      [] lvl = "trace" -> [level |-> TraceLevel, err |-> FALSE]
      [] OTHER -> [level |-> PanicLevel, err |-> TRUE]

\* the name logrus gives a level in an entry
LevelName(level) ==
    CASE level = PanicLevel -> "panic"
      [] level = FatalLevel -> "fatal"
      [] level = ErrorLevel -> "error"
      [] level = WarnLevel -> "warning"
      [] level = InfoLevel -> "info"
      [] level = DebugLevel -> "debug"
      [] OTHER -> "trace"

LoggerOptions(consoleOutput, fileOutput, logLevel, fileLogLevel) ==
    [ConsoleOutput |-> consoleOutput, FileOutput |-> fileOutput,
     LogLevel |-> logLevel, FileLogLevel |-> fileLogLevel]

\* DefaultLoggerOptions()
DefaultLoggerOptions == LoggerOptions(TRUE, TRUE, "warn", "error")

\* the *LogrusLogger InitLogger(opts) builds and hands to SetLogger; debug
\* tells whether the program was built with the tag debug
InitLogger(opts, debug) ==
    LET level == ParseLevel(opts.LogLevel)
        fileLogLevel == IF opts.FileLogLevel = "" THEN "error" ELSE opts.FileLogLevel
        fileLevel == ParseLevel(fileLogLevel)
    IN  [impl |-> "logrus",
         consoleLogger |-> IF ~opts.ConsoleOutput THEN NoLogger
                           ELSE IF level.err THEN WarnLevel ELSE level.level,
         fileLogger |-> IF ~opts.FileOutput THEN NoLogger
                        ELSE IF fileLevel.err THEN ErrorLevel ELSE fileLevel.level,
         debug |-> debug]

\* LogrusEntry of a logger that drops the entries at its own level
LogrusEntry_AboveOwnLevel(loggerLevel, level, msg, fields) ==
    IF loggerLevel # NoLogger /\ loggerLevel > level
    THEN <<[level |-> LevelName(level), message |-> msg, fields |-> fields]>>
    ELSE <<>>

\* what a logrus logger writes for entry.WithFields(fields).<Level>(msg)
LogrusEntry(loggerLevel, level, msg, fields) ==
    IF loggerLevel # NoLogger /\ loggerLevel >= level
    THEN <<[level |-> LevelName(level), message |-> msg, fields |-> fields]>>
    ELSE <<>>

\* MethodLevel of a logger whose Debug and Trace write in every build
MethodLevel_EveryBuild(logger, method) ==
    CASE method = "Error" -> ErrorLevel
      [] method = "Warn"  -> WarnLevel
      [] method = "Info"  -> InfoLevel
      [] method = "Panic" -> ErrorLevel
      [] method = "Debug" -> DebugLevel
      [] OTHER -> TraceLevel

\* the level at which a method of *LogrusLogger writes: Panic writes as
\* Error; Debug and Trace write only in a debug build
MethodLevel(logger, method) ==
    CASE method = "Error" -> ErrorLevel
      [] method = "Warn"  -> WarnLevel
      [] method = "Info"  -> InfoLevel
      [] method = "Panic" -> ErrorLevel
      [] method = "Debug" -> IF logger.debug THEN DebugLevel ELSE NoLogger
      [] OTHER -> IF logger.debug THEN TraceLevel ELSE NoLogger

\* a call of a method of *LogrusLogger: the entries the console and the file
\* receive
LogrusLoggerCall(logger, call) ==
    LET level == MethodLevel(logger, call.method)
    IN  IF level = NoLogger THEN [console |-> <<>>, file |-> <<>>]
        ELSE [console |-> LogrusEntry(logger.consoleLogger, level, call.message, call.fields),
              file |-> LogrusEntry(logger.fileLogger, level, call.message, call.fields)]

----------------------------------------------------------------------------
(* The callers: what the application passes to the library.                *)

MaxObjs == 2
MaxSkipPackages == 4

SiteReserve ==
    [file |-> "/src/app/services/product.go", line |-> 70,
     function |-> "github.com/acme/app/services.Reserve"]

Sites == {SiteReserve}

Cause1 == PlainError("sql: connection refused")
Cause2 == PlainError("dial tcp: i/o timeout")

Causes == {Cause1, Cause2}

Messages == {"Product not found"}

RequestIDs == {"req-1"}

AgeData == [field |-> "age", min |-> "18", received |-> "15"]

DataMaps == {NilMap, AgeData}

Levels == {"warn"}

\* the operation that built an object, and the message its caller supplied
Origin(op, supplied, msg) == [op |-> op, supplied |-> supplied, msg |-> msg]

Init ==
    /\ defaultConfig = InitialConfig
    /\ defaultLogger = NilLogger
    /\ heap = <<>>
    /\ origin = <<>>
    /\ last = [op |-> "init"]
    /\ reqs = <<>>

\* a factory call that returns the new object obj
Return(op, obj, supplied, msg) ==
    /\ Len(heap) < MaxObjs
    /\ heap' = Append(heap, obj)
    /\ origin' = Append(origin, Origin(op, supplied, msg))
    /\ last' = [op |-> op, ret |-> Len(heap) + 1, panicked |-> FALSE]
    /\ UNCHANGED <<defaultConfig, defaultLogger, reqs>>

CallNewBusinessError ==
    \E msg \in Messages, site \in Sites :
        Return("NewBusinessError", NewBusinessError(404, msg, site), TRUE, msg)

CallNewSystemError ==
    \E err \in {Cause1}, site \in Sites :
        Return("NewSystemError", NewSystemError(err, site), FALSE, "")

CallNewValidationError ==
    \E msg \in Messages, data \in DataMaps, site \in Sites :
        Return("NewValidationError", NewValidationError(msg, data, site), TRUE, msg)

CallNewAuthError ==
    \E msg \in Messages, site \in Sites :
        Return("NewAuthError", NewAuthError(401, msg, site), TRUE, msg)

CallNewExternalError ==
    \E msg \in Messages, cause \in {Cause1}, site \in Sites :
        Return("NewExternalError", NewExternalError(502, msg, cause, site), TRUE, msg)

\* a struct literal &AppError{Type: ..., Code: ..., Message: ...} written by the
\* application with a kind of its own
CallLiteral ==
    \E msg \in Messages :
        Return("literal", AppError("CUSTOM", 418, msg, NilMap, NilMap, NilError, ""), TRUE, msg)

\* a call of Wrap or WrapWithMessage with result r
Wrapped(op, err, r, supplied, msg) ==
    /\ IsObject(r) => Len(heap) < MaxObjs
    /\ heap' = IF IsObject(r) THEN Append(heap, r) ELSE heap
    /\ origin' = IF IsObject(r) THEN Append(origin, Origin(op, supplied, msg)) ELSE origin
    /\ last' = [op |-> op, err |-> err,
                ret |-> IF IsObject(r) THEN Len(heap) + 1 ELSE 0,
                panicked |-> r = Panicked]
    /\ UNCHANGED <<defaultConfig, defaultLogger, reqs>>

CallWrap ==
    \E err \in Causes \cup {NilError}, site \in Sites :
        Wrapped("Wrap", err, Wrap(err, site), FALSE, "")

CallWrapWithMessage ==
    \E err \in Causes \cup {NilError}, msg \in Messages, site \in Sites :
        Wrapped("WrapWithMessage", err, WrapWithMessage(err, msg, site), TRUE, msg)

\* e.Level(level) on an object of the heap, with level one of levels
SetLevel(levels) ==
    \E p \in 1..Len(heap), level \in levels :
        /\ heap' = [heap EXCEPT ![p] = Level(@, level)]
        /\ last' = [op |-> "Level", ptr |-> p, level |-> level, ret |-> p,
                    panicked |-> FALSE]
        /\ UNCHANGED <<defaultConfig, defaultLogger, origin, reqs>>

CallLevel == SetLevel(Levels)

CallGetLogLevel ==
    \E p \in 1..Len(heap) :
        /\ last' = [op |-> "GetLogLevel", ptr |-> p, level |-> GetLogLevel(heap[p])]
        /\ UNCHANGED <<defaultConfig, defaultLogger, heap, origin, reqs>>

\* ConvertToAppError(err, requestID)
Converted(err, requestID) ==
    LET c == ConvertToAppError(heap, err, requestID) IN
    /\ Len(c.heap) <= MaxObjs
    /\ heap' = c.heap
    /\ origin' = IF Len(c.heap) > Len(heap)
                 THEN Append(origin, Origin("ConvertToAppError", FALSE, ""))
                 ELSE origin
    /\ last' = [op |-> "ConvertToAppError", err |-> err, requestID |-> requestID,
                ret |-> c.ret, panicked |-> c.panicked,
                before |-> IF err.ptr > 0 THEN heap[err.ptr] ELSE NilObject]
    /\ UNCHANGED <<defaultConfig, defaultLogger, reqs>>

\* ... of an error that is no *AppError
CallConvertPlainError ==
    \E err \in Causes, requestID \in RequestIDs : Converted(err, requestID)

\* ... of a plain error, of an object of the heap or of a nil *AppError
CallConvertToAppError ==
    \E err \in Causes \cup {AppErrorValue(p) : p \in 0..Len(heap)}, requestID \in RequestIDs :
        Converted(err, requestID)

CallFormatErrorResponse ==
    \E p \in 1..Len(heap) :
        /\ last' = [op |-> "FormatErrorResponse", ptr |-> p,
                    payload |-> FormatErrorResponse(heap[p])]
        /\ UNCHANGED <<defaultConfig, defaultLogger, heap, origin, reqs>>

----------------------------------------------------------------------------
(* Panics.  A scenario is a panic in application code: the recovered       *)
(* value, the runtime frames between the panic marker and the application  *)
(* (a run-time error has one), the frames of the application with the      *)
(* innermost first, and the frames below them.  pkg is the application's   *)
(* root package.                                                           *)

DemoDir == "/src/demo"
AcmePkg == "github.com/acme/app"
AcmeDir == "/src/app"

FGetElement == Frame("main.GetElement", "(...)", DemoDir, "main.go", 197)
FCallW == Frame("main.callW", "(...)", DemoDir, "main.go", 219)
FStackHandler == Frame("main.panicStackHandler", "(0xc0002)", DemoDir, "main.go", 202)
FAcmeReserve == Frame(AcmePkg \o "/services.Reserve", "(0x7b)", AcmeDir \o "/services", "product.go", 70)
FAcmeLookup == Frame(AcmePkg \o ".Lookup", "(0x7b)", AcmeDir, "lookup.go", 31)
FAcmeHandler == Frame(AcmePkg \o ".Handler", "(0xc0002)", AcmeDir, "handler.go", 12)
FAcmeClosure == Frame(AcmePkg \o ".Handler.func1", "()", AcmeDir, "handler.go", 18)
FMainDeferred == Frame("main.main.func1", "()", DemoDir, "main.go", 15)
FMain == Frame("main.main", "()", DemoDir, "main.go", 21)
FRuntimeMain == Frame("runtime.main", "()", GoRoot \o "/runtime", "proc.go", 267)

\* handler -> callW -> GetElement -> index out of range, in package main
PanicIndex ==
    [name |-> "index", value |-> PanicOfError("runtime error: index out of range [10] with length 3"),
     recover |-> FDeferred, runtime |-> <<FIndexError>>,
     chain |-> <<FGetElement, FCallW, FStackHandler>>, outer |-> OuterFrames, pkg |-> "main"]

\* panic("boom") in the handler of a one-package application
PanicHandler ==
    [name |-> "handler", value |-> PanicOfString("boom"),
     recover |-> FDeferred, runtime |-> <<>>,
     chain |-> <<FAcmeHandler>>, outer |-> OuterFrames, pkg |-> AcmePkg]

\* panic(42) in a sub-package of the application, called from its handler
PanicSubPackage ==
    [name |-> "subpackage", value |-> PanicOfInt(42),
     recover |-> FDeferred, runtime |-> <<>>,
     chain |-> <<FAcmeReserve, FAcmeHandler>>, outer |-> OuterFrames, pkg |-> AcmePkg]

\* panic("boom") in main, recovered by a deferred function of main itself
PanicMain ==
    [name |-> "main", value |-> PanicOfString("boom"),
     recover |-> FMainDeferred, runtime |-> <<>>,
     chain |-> <<FMain>>, outer |-> <<FRuntimeMain, FGoexit>>, pkg |-> "main"]

\* panic("boom") in a function literal the handler calls
PanicClosure ==
    [name |-> "closure", value |-> PanicOfString("boom"),
     recover |-> FDeferred, runtime |-> <<>>,
     chain |-> <<FAcmeClosure, FAcmeHandler>>, outer |-> OuterFrames, pkg |-> AcmePkg]

PanicScenarios == {PanicIndex, PanicHandler, PanicSubPackage, PanicClosure}

\* debug.Stack() as captured by `top` (getActualPanicLocation or
\* formatStackTraceArray) inside HandlePanic while scenario s is recovered
PanicStack(s, top) ==
    DebugStack(<<FStack, top, FHandlePanic, s.recover, FPanic>> \o s.runtime \o s.chain \o s.outer)

\* HandlePanic(r, requestID) while scenario s is recovered
RecoverPanic(s, requestID) ==
    HandlePanic(s.value, requestID, PanicStack(s, FLocation), PanicStack(s, FChain))

\* a deferred function of the application recovers and calls HandlePanic
CallHandlePanic ==
    \E requestID \in RequestIDs :
        Return("HandlePanic", RecoverPanic(PanicMain, requestID), FALSE, "")

----------------------------------------------------------------------------
(* The stack-trace filter at work: the application configures it, panics   *)
(* are recovered, call chains are built and frames are classified.         *)

\* a configuration that names what to skip and leaves IncludePackages empty
SkipListConfig ==
    [SkipPackages    |-> <<"runtime", "runtime/debug", KitPkg, FiberPkg>>,
     SkipFunctions   |-> InitialConfig.SkipFunctions,
     IncludePackages |-> <<>>,
     ShowFullPath    |-> FALSE]

\* a configuration that names the application and asks for full paths
FullPathConfig ==
    [SkipPackages    |-> <<"runtime", "runtime/debug">>,
     SkipFunctions   |-> InitialConfig.SkipFunctions,
     IncludePackages |-> <<AcmePkg>>,
     ShowFullPath    |-> TRUE]

\* the configuration of the example in the comment of SetStackTraceConfig:
\* the application's package alone, with nothing to skip
IncludeOnlyConfig ==
    [SkipPackages    |-> <<>>,
     SkipFunctions   |-> <<>>,
     IncludePackages |-> <<AcmePkg>>,
     ShowFullPath    |-> FALSE]

ConfigChoices == {SkipListConfig, FullPathConfig, IncludeOnlyConfig}

\* the packages passed to ConfigureForApplication: applications, and the
\* library itself when its own code is the application
AppPackages == {"main", "app", AcmePkg, KitPkg}

\* SetStackTraceConfig(config)
SetStackTraceConfig ==
    \E config \in ConfigChoices :
        /\ defaultConfig' = config
        /\ last' = [op |-> "SetStackTraceConfig"]
        /\ UNCHANGED <<defaultLogger, heap, origin, reqs>>

\* ConfigureForApplication(appPackage) with appPackage one of packages
ConfigureForApplicationOf(packages) ==
    \E appPackage \in packages :
        /\ Len(defaultConfig.SkipPackages) < MaxSkipPackages
        /\ defaultConfig' = [defaultConfig EXCEPT
                                !.IncludePackages = <<appPackage>>,
                                !.SkipPackages = Append(@, KitPkg)]
        /\ last' = [op |-> "ConfigureForApplication", appPackage |-> appPackage]
        /\ UNCHANGED <<defaultLogger, heap, origin, reqs>>

\* ConfigureForApplication(appPackage)
ConfigureForApplication == ConfigureForApplicationOf(AppPackages)

\* the middleware's deferred function recovers a panic of the handler and
\* calls HandlePanic; obj is the object HandlePanic returns
RecoverInRequest ==
    \E s \in PanicScenarios, requestID \in RequestIDs :
        /\ last' = [op |-> "HandlePanic", scenario |-> s, obj |-> RecoverPanic(s, requestID)]
        /\ UNCHANGED <<defaultConfig, defaultLogger, heap, origin, reqs>>

\* the frames below HandlePanic when the application calls it on a value
\* that was recovered earlier: no panic is in progress
LaterFrames == <<FAcmeHandler>> \o OuterFrames

\* HandlePanic(r, requestID) called outside the recovery of a panic
HandlePanicLater ==
    \E requestID \in RequestIDs :
        /\ last' = [op |-> "HandlePanicLater", frames |-> LaterFrames,
                    obj |-> HandlePanic(PanicOfString("boom"), requestID,
                               DebugStack(<<FStack, FLocation, FHandlePanic>> \o LaterFrames),
                               DebugStack(<<FStack, FChain, FHandlePanic>> \o LaterFrames))]
        /\ UNCHANGED <<defaultConfig, defaultLogger, heap, origin, reqs>>

\* function lines of frames, each with the package of its function
ClassifyInputs ==
    {[line |-> "app.Run(0x1)", pkg |-> "app"],
     [line |-> "app/sub.Load(0x2)", pkg |-> "app/sub"],
     [line |-> "otherlib.Parse(0x3)", pkg |-> "otherlib"],
     [line |-> FuncLine(FAcmeHandler), pkg |-> AcmePkg],
     [line |-> FuncLine(FAcmeReserve), pkg |-> AcmePkg \o "/services"],
     [line |-> FuncLine(FNext), pkg |-> FiberPkg],
     [line |-> FuncLine(FHandlePanic), pkg |-> KitPkg],
     [line |-> FuncLine(FStack), pkg |-> "runtime/debug"],
     [line |-> FuncLine(FGoexit), pkg |-> "runtime"],
     [line |-> FuncLine(FPanic), pkg |-> "runtime"]}

\* isUserFunction(line) as the scanners call it on a function line
Classify ==
    \E in \in ClassifyInputs :
        /\ last' = [op |-> "isUserFunction", line |-> in.line, pkg |-> in.pkg,
                    verdict |-> isUserFunction(in.line)]
        /\ UNCHANGED <<defaultConfig, defaultLogger, heap, origin, reqs>>

\* a trace of three runtime frames, one frame of a third-party library and
\* two frames of the application
SyntheticTrace ==
    [name |-> "synthetic",
     frames |-> <<FStack, FAcmeLookup, FAcmeHandler, FNext, FRuntimeMain, FGoexit>>,
     app |-> <<FAcmeLookup, FAcmeHandler>>]

\* the trace WithCallChain captures in a handler of the demo application
HandlerTrace ==
    [name |-> "handler",
     frames |-> <<FStack, FChain, FWithCallChain, FCallW, FStackHandler>> \o OuterFrames,
     app |-> <<FCallW, FStackHandler>>]

\* a method on a pointer receiver of the application
FAcmeMethod == Frame(AcmePkg \o "/services.(*Stock).Reserve", "(0xc0001, 0x2)", AcmeDir \o "/services", "stock.go", 40)

\* the trace WithCallChain captures in a method that a handler calls
MethodTrace ==
    [name |-> "method",
     frames |-> <<FStack, FChain, FWithCallChain, FAcmeMethod, FAcmeHandler>> \o OuterFrames,
     app |-> <<FAcmeMethod, FAcmeHandler>>]

ChainTraces == {SyntheticTrace, HandlerTrace, MethodTrace}

\* formatStackTraceArray() over a captured trace
BuildCallChain ==
    \E t \in ChainTraces :
        /\ last' = [op |-> "formatStackTraceArray", trace |-> t,
                    chain |-> formatStackTraceArray(DebugStack(t.frames))]
        /\ UNCHANGED <<defaultConfig, defaultLogger, heap, origin, reqs>>

\* function lines of anonymous functions and of functions with many segments
MiddlewareInputs ==
    {Frame("main.main.New.func1", "()", DemoDir, "main.go", 40),
     Frame(FiberPkg \o ".(*App).Next.func1", "(0xc0002)", FiberDir, "app.go", 50),
     Frame("main.main.func1", "()", DemoDir, "main.go", 41),
     Frame("main.main.func1", "(...)", DemoDir, "main.go", 41),
     Frame("main.Handler.func1", "(0xc0002)", DemoDir, "main.go", 42),
     Frame("main.logger.func2", "(0x1)", DemoDir, "main.go", 43),
     Frame("main.handler.process.Run", "(0x1)", DemoDir, "main.go", 44),
     Frame("app.(*Server).funcs.Lookup", "(0x1)", AcmeDir, "server.go", 45),
     FAcmeClosure, FAcmeHandler, FAcmeMethod}

\* shouldSkipFunction(line), with isMiddlewareAnonymousFunc(line), as the
\* chain builder calls it on a function line
ClassifyMiddleware ==
    \E f \in MiddlewareInputs :
        /\ last' = [op |-> "isMiddlewareAnonymousFunc", frame |-> f,
                    verdict |-> isMiddlewareAnonymousFunc(FuncLine(f)),
                    skipped |-> shouldSkipFunctionOrMiddleware(FuncLine(f))]
        /\ UNCHANGED <<defaultConfig, defaultLogger, heap, origin, reqs>>

NextTrace ==
    \/ SetStackTraceConfig
    \/ ConfigureForApplication
    \/ RecoverInRequest
    \/ HandlePanicLater
    \/ Classify
    \/ ClassifyMiddleware
    \/ BuildCallChain

SpecTrace == Init /\ [][NextTrace]_vars

Next ==
    \/ CallNewBusinessError
    \/ CallNewSystemError
    \/ CallNewValidationError
    \/ CallNewAuthError
    \/ CallNewExternalError
    \/ CallLiteral
    \/ CallWrap
    \/ CallWrapWithMessage
    \/ CallHandlePanic
    \/ CallConvertPlainError
    \/ CallGetLogLevel
    \/ CallFormatErrorResponse

Spec == Init /\ [][Next]_vars

\* the converter applied to errors that carry data and a severity override
NextConvert ==
    \/ CallNewValidationError
    \/ CallWrap
    \/ CallLevel
    \/ CallConvertToAppError

SpecConvert == Init /\ [][NextConvert]_vars

----------------------------------------------------------------------------
(* adapters/fiber/middleware.go: the error-handling middleware.  A request *)
(* is served in one step: the handler runs inside c.Next(), the middleware *)
(* converts, logs and responds, and its deferred function recovers.        *)

MaxReqs == 2

FPanicmem == Frame("runtime.panicmem", "(...)", GoRoot \o "/runtime", "panic.go", 260)
FSigpanic == Frame("runtime.sigpanic", "()", GoRoot \o "/runtime", "signal_unix.go", 841)
FConvertToAppError == Frame(KitPkg \o ".ConvertToAppError", "({0x1, 0x0}, {0x3, 0x7})", KitDir, "handler.go", 49)

\* the assignment through a nil *AppError in ConvertToAppError, called by the
\* middleware
PanicNilPointer ==
    [name |-> "nilpointer",
     value |-> PanicOfError("runtime error: invalid memory address or nil pointer dereference"),
     recover |-> FDeferred, runtime |-> <<FPanicmem, FSigpanic>>,
     chain |-> <<FConvertToAppError>>, outer |-> <<FMiddleware, FServe, FGoexit>>,
     pkg |-> KitPkg]

\* what a handler does: it returns nil or a plain error, it returns an object
\* it built (the result of a factory or of a wrap, a *AppError, as its error
\* result), or it panics
HandlerChoices ==
    {[kind |-> "return", value |-> v] : v \in {NilError, Cause1}}
    \cup {[kind |-> "build", op |-> "NewValidationError", supplied |-> TRUE, msg |-> msg,
           obj |-> NewValidationError(msg, AgeData, site)] : msg \in Messages, site \in Sites}
    \cup {[kind |-> "build", op |-> "Wrap", supplied |-> FALSE, msg |-> "",
           obj |-> Wrap(err, site)] : err \in {NilError, Cause1}, site \in Sites}
    \cup {[kind |-> "build", op |-> "WrapWithMessage", supplied |-> TRUE, msg |-> msg,
           obj |-> WrapWithMessage(NilError, msg, site)] : msg \in Messages, site \in Sites}
    \cup {[kind |-> "panic", scenario |-> sc] : sc \in {PanicIndex}}

\* the value of c.Locals("requestid"): a string, or nothing
NoLocal == "<nil>"
RequestLocals == RequestIDs \cup {NoLocal}

RequestPaths == {"GET /products"}

\* the logger InitDefaultLogger() sets
Loggers == {InitLogger(DefaultLoggerOptions, FALSE)}

\* the correlation id the middleware reads from the request
RequestIDOf(r) == IF r.local = NoLocal THEN "unknown" ELSE r.local

\* the function ErrorHandler() returns, serving one request on heap h: the
\* heap afterwards, the events of the request in order, and what the function
\* returns to the framework.  recover() returns a non-nil value for every
\* panic (Go 1.21 and later).
ErrorHandler(h, o, logger, c, local, requestPath) ==
    LET requestID == IF local = NoLocal THEN "unknown" ELSE local
        built == c.kind = "build" /\ IsObject(c.obj)
        h1 == IF built THEN Append(h, c.obj) ELSE h
        o1 == IF built THEN Append(o, Origin(c.op, c.supplied, c.msg)) ELSE o
        \* err := c.Next()
        err == CASE c.kind = "return" -> c.value
                 [] c.kind = "build" -> AppErrorValue(IF built THEN Len(h1) ELSE 0)
                 [] OTHER -> NilError
        conv == ConvertToAppError(h1, err, requestID)
        converts == c.kind # "panic" /\ err # NilError
        panics == c.kind = "panic" \/ (converts /\ conv.panicked)
    IN  IF panics
        THEN LET sc == IF c.kind = "panic" THEN c.scenario ELSE PanicNilPointer
                 h2 == Append(h1, RecoverPanic(sc, requestID))
             IN  [heap |-> h2,
                  origin |-> Append(o1, Origin("HandlePanic", FALSE, "")),
                  err |-> err,
                  events |-> (IF converts
                              THEN <<[ev |-> "ConvertToAppError", ret |-> 0, panicked |-> TRUE]>>
                              ELSE <<>>)
                             \o <<[ev |-> "recover"], [ev |-> "HandlePanic", ret |-> Len(h2)]>>
                             \o LogAndRespond(h2, logger, Len(h2), requestPath),
                  ret |-> NilError]
        ELSE IF converts
        THEN [heap |-> conv.heap,
              origin |-> IF Len(conv.heap) > Len(h1)
                         THEN Append(o1, Origin("ConvertToAppError", FALSE, ""))
                         ELSE o1,
              err |-> err,
              events |-> <<[ev |-> "ConvertToAppError", ret |-> conv.ret, panicked |-> FALSE]>>
                         \o LogAndRespond(conv.heap, logger, conv.ret, requestPath),
              ret |-> NilError]
        ELSE [heap |-> h1, origin |-> o1, err |-> err, events |-> <<>>, ret |-> NilError]

\* SetLogger(l)
SetLogger ==
    \E l \in Loggers :
        /\ defaultLogger' = l
        /\ last' = [op |-> "SetLogger"]
        /\ UNCHANGED <<defaultConfig, heap, origin, reqs>>

\* one request through the middleware
ServeRequest ==
    \E c \in HandlerChoices, local \in RequestLocals, requestPath \in RequestPaths :
        /\ Len(reqs) < MaxReqs
        /\ \E r \in {ErrorHandler(heap, origin, defaultLogger, c, local, requestPath)} :
               /\ heap' = r.heap
               /\ origin' = r.origin
               /\ reqs' = Append(reqs, [handler |-> c, local |-> local, err |-> r.err,
                                        events |-> r.events, ret |-> r.ret])
        /\ last' = [op |-> "ErrorHandler"]
        /\ UNCHANGED <<defaultConfig, defaultLogger>>

NextHTTP ==
    \/ SetLogger
    \/ ServeRequest

SpecHTTP == Init /\ [][NextHTTP]_vars

----------------------------------------------------------------------------
(* Logging: the application initialises the logger, builds errors, sets    *)
(* their severity and logs them.                                           *)

MaxLogObjs == 1

\* the options the application passes to InitLogger: the defaults, every
\* level, names that are no level, and one output only
LoggerOptionChoices ==
    {DefaultLoggerOptions,
     LoggerOptions(TRUE, TRUE, "trace", "trace"),
     LoggerOptions(TRUE, TRUE, "verbose", ""),
     LoggerOptions(FALSE, TRUE, "warn", "panic"),
     LoggerOptions(TRUE, FALSE, "info", "error")}

\* the severities the application passes to Level: the six the library
\* knows, a logrus level it does not, and the empty string
LogLevels == {"trace", "debug", "info", "warn", "error", "panic", "fatal", ""}

RECURSIVE Written(_, _)
\* the entries the console and the file receive for calls on the logger
Written(logger, calls) ==
    IF calls = <<>> THEN [console |-> <<>>, file |-> <<>>]
    ELSE LET w == LogrusLoggerCall(logger, Head(calls))
             rest == Written(logger, Tail(calls))
         IN  [console |-> w.console \o rest.console, file |-> w.file \o rest.file]

\* InitLogger(opts) in a build with or without the tag debug: the logger is
\* set and the console logger reports it at level info
CallInitLogger ==
    \E opts \in LoggerOptionChoices, debug \in BOOLEAN :
        /\ defaultLogger' = InitLogger(opts, debug)
        /\ last' = [op |-> "InitLogger", opts |-> opts,
                    console |-> LogrusEntry(InitLogger(opts, debug).consoleLogger, InfoLevel,
                                            "GoErrorKit logger initialized", <<>>)]
        /\ UNCHANGED <<defaultConfig, heap, origin, reqs>>

\* SetLogger(nil)
SetLoggerNil ==
    /\ defaultLogger' = NilLogger
    /\ last' = [op |-> "SetLogger", logger |-> NilLogger]
    /\ UNCHANGED <<defaultConfig, heap, origin, reqs>>

LogNewValidationError == Len(heap) < MaxLogObjs /\ CallNewValidationError

LogNewSystemError == Len(heap) < MaxLogObjs /\ CallNewSystemError

CallLevelAny == SetLevel(LogLevels)

\* LogError(appErr, requestPath) on an object of the heap
CallLogError ==
    \E p \in 1..Len(heap), requestPath \in RequestPaths :
        LET calls == LogError(defaultLogger, heap[p], requestPath) IN
        /\ last' = [op |-> "LogError", ptr |-> p, path |-> requestPath,
                    calls |-> calls, written |-> Written(defaultLogger, calls)]
        /\ UNCHANGED <<defaultConfig, defaultLogger, heap, origin, reqs>>

\* the codes the application passes to NewBusinessError: a status, and the
\* zero value of int
Codes == {404, 0}

LogNewBusinessError ==
    /\ Len(heap) < MaxLogObjs
    /\ \E code \in Codes, msg \in Messages, site \in Sites :
           Return("NewBusinessError", NewBusinessError(code, msg, site), TRUE, msg)

\* LogAndRespond(ctx, appErr, requestPath) on an object of the heap
CallLogAndRespond ==
    \E p \in 1..Len(heap), requestPath \in RequestPaths :
        /\ last' = [op |-> "LogAndRespond", ptr |-> p,
                    events |-> LogAndRespond(heap, defaultLogger, p, requestPath)]
        /\ UNCHANGED <<defaultConfig, defaultLogger, heap, origin, reqs>>

\* core.NewValidationError(msg, details), the factory of the package the
\* Fiber adapter imports
CallCoreNewValidationError ==
    \E msg \in Messages, details \in DataMaps, site \in Sites :
        /\ last' = [op |-> "core.NewValidationError", details |-> details,
                    obj |-> CoreNewValidationError(msg, details, site)]
        /\ UNCHANGED <<defaultConfig, defaultLogger, heap, origin, reqs>>

NextLog ==
    \/ CallInitLogger
    \/ SetLoggerNil
    \/ LogNewValidationError
    \/ LogNewSystemError
    \/ LogNewBusinessError
    \/ CallLevelAny
    \/ CallGetLogLevel
    \/ CallLogError
    \/ CallLogAndRespond
    \/ CallCoreNewValidationError

SpecLog == Init /\ [][NextLog]_vars

----------------------------------------------------------------------------
(* The fluent mutators: the application builds an error, attaches data, a  *)
(* call chain and a severity in any order, and the error is logged and     *)
(* formatted.                                                              *)

MaxMutObjs == 1

ProductData == [product_id |-> "123"]

\* the maps the application passes to WithData
MutatorData == {NilMap, AgeData, ProductData}

MutNewBusinessError ==
    /\ Len(heap) < MaxMutObjs
    /\ \E site \in Sites :
           Return("NewBusinessError", NewBusinessError(404, "Product not found", site),
                  TRUE, "Product not found")

\* an error without Details: ConvertToAppError of a plain error
MutConvertPlainError ==
    /\ Len(heap) < MaxMutObjs
    /\ \E requestID \in RequestIDs : Converted(Cause1, requestID)

\* e.WithData(data) on an object of the heap
CallWithData ==
    \E p \in 1..Len(heap), data \in MutatorData :
        /\ heap' = [heap EXCEPT ![p] = WithData(@, data)]
        /\ last' = [op |-> "WithData", ptr |-> p, ret |-> p, data |-> data,
                    before |-> heap[p]]
        /\ UNCHANGED <<defaultConfig, defaultLogger, origin, reqs>>

\* the lines of the debug.Stack() capture of a WithCallChain() call made in a
\* handler of the demo application
HandlerStack == DebugStack(HandlerTrace.frames)

\* e.WithCallChain() on an object of the heap, called in a handler of the
\* demo application
CallWithCallChain ==
    \E p \in 1..Len(heap) :
        /\ heap' = [heap EXCEPT ![p] = WithCallChain(@, HandlerStack)]
        /\ last' = [op |-> "WithCallChain", ptr |-> p, ret |-> p,
                    chain |-> formatStackTraceArray(HandlerStack),
                    before |-> heap[p]]
        /\ UNCHANGED <<defaultConfig, defaultLogger, origin, reqs>>

NextMutate ==
    \/ MutNewBusinessError
    \/ MutConvertPlainError
    \/ CallWithData
    \/ CallWithCallChain
    \/ CallLevel
    \/ CallLogError
    \/ CallFormatErrorResponse

SpecMutate == Init /\ [][NextMutate]_vars

----------------------------------------------------------------------------
(* Concurrent requests.  Fiber serves each request in a goroutine of its    *)
(* own; the steps of the middleware for different requests interleave.  The *)
(* application sets the logger and declares its package-level errors       *)
(* before traffic begins.  A request is the id the middleware read, what   *)
(* its handler did, the step the middleware is at, and what each step saw. *)

MaxConcReqs == 2
MaxSentinels == 1

\* a package-level error of the application: var ErrNotFound =
\* goerrorkit.NewBusinessError(404, "Product not found")
DeclareSentinel ==
    /\ reqs = <<>>
    /\ Len(heap) < MaxSentinels
    /\ heap' = Append(heap, NewBusinessError(404, "Product not found", SiteReserve))
    /\ origin' = Append(origin, Origin("NewBusinessError", TRUE, "Product not found"))
    /\ last' = [op |-> "NewBusinessError", ret |-> Len(heap) + 1, panicked |-> FALSE]
    /\ UNCHANGED <<defaultConfig, defaultLogger, reqs>>

\* SetLogger(l) before traffic begins
StartupSetLogger == reqs = <<>> /\ defaultLogger = NilLogger /\ SetLogger

\* a request enters the middleware, which reads the path and the request id
Arrive ==
    /\ Len(reqs) < MaxConcReqs
    /\ reqs' = Append(reqs, [local |-> "req-" \o Itoa(Len(reqs) + 1),
                             path |-> "GET /products", pc |-> "Next"])
    /\ last' = [op |-> "ErrorHandler", req |-> Len(reqs) + 1]
    /\ UNCHANGED <<defaultConfig, defaultLogger, heap, origin>>

\* c.Next() of request i returns a package-level error
HandlerReturnsSentinel(i) ==
    \E p \in 1..Len(heap) :
        /\ origin[p].op = "NewBusinessError"
        /\ reqs[i].pc = "Next"
        /\ reqs' = [reqs EXCEPT ![i] = [local |-> @.local, path |-> @.path, pc |-> "Convert",
                                        outcome |-> "sentinel", err |-> AppErrorValue(p)]]
        /\ last' = [op |-> "Next", req |-> i]
        /\ UNCHANGED <<defaultConfig, defaultLogger, heap, origin>>

\* c.Next() of request i returns an error that is no *AppError
HandlerReturnsPlainError(i) ==
    /\ reqs[i].pc = "Next"
    /\ reqs' = [reqs EXCEPT ![i] = [local |-> @.local, path |-> @.path, pc |-> "Convert",
                                    outcome |-> "plain", err |-> Cause1]]
    /\ last' = [op |-> "Next", req |-> i]
    /\ UNCHANGED <<defaultConfig, defaultLogger, heap, origin>>

\* appErr := ConvertToAppError(err, requestID) of request i
ConvertStep(i) ==
    /\ reqs[i].pc = "Convert"
    /\ LET c == ConvertToAppError(heap, reqs[i].err, RequestIDOf(reqs[i])) IN
       /\ heap' = c.heap
       /\ origin' = IF Len(c.heap) > Len(heap)
                    THEN Append(origin, Origin("ConvertToAppError", FALSE, ""))
                    ELSE origin
       /\ reqs' = [reqs EXCEPT ![i] = [local |-> @.local, path |-> @.path, pc |-> "LogError",
                                       outcome |-> @.outcome, err |-> @.err,
                                       obj |-> c.ret, converted |-> c.heap[c.ret]]]
    /\ last' = [op |-> "ConvertToAppError", req |-> i]
    /\ UNCHANGED <<defaultConfig, defaultLogger>>

\* LogError(appErr, requestPath) of request i, in LogAndRespond
LogStep(i) ==
    /\ reqs[i].pc = "LogError"
    /\ reqs' = [reqs EXCEPT ![i] = [local |-> @.local, path |-> @.path, pc |-> "Respond",
                                    outcome |-> @.outcome, err |-> @.err,
                                    obj |-> @.obj, converted |-> @.converted,
                                    logged |-> heap[@.obj],
                                    calls |-> LogError(defaultLogger, heap[@.obj], @.path)]]
    /\ last' = [op |-> "LogError", req |-> i]
    /\ UNCHANGED <<defaultConfig, defaultLogger, heap, origin>>

\* ctx.Status(appErr.Code).JSON(FormatErrorResponse(appErr)) of request i
RespondStep(i) ==
    /\ reqs[i].pc = "Respond"
    /\ reqs' = [reqs EXCEPT ![i] = [local |-> @.local, path |-> @.path, pc |-> "done",
                                    outcome |-> @.outcome, err |-> @.err,
                                    obj |-> @.obj, converted |-> @.converted,
                                    logged |-> @.logged, calls |-> @.calls,
                                    status |-> heap[@.obj].Code,
                                    body |-> FormatErrorResponse(heap[@.obj])]]
    /\ last' = [op |-> "Respond", req |-> i]
    /\ UNCHANGED <<defaultConfig, defaultLogger, heap, origin>>

NextConcurrent ==
    \/ DeclareSentinel
    \/ StartupSetLogger
    \/ Arrive
    \/ \E i \in 1..Len(reqs) : HandlerReturnsSentinel(i)
    \/ \E i \in 1..Len(reqs) : HandlerReturnsPlainError(i)
    \/ \E i \in 1..Len(reqs) : ConvertStep(i)
    \/ \E i \in 1..Len(reqs) : LogStep(i)
    \/ \E i \in 1..Len(reqs) : RespondStep(i)

SpecConcurrent == Init /\ [][NextConcurrent]_vars

----------------------------------------------------------------------------
(* Configuration at startup: the application calls the helpers that add to *)
(* the active configuration and the fluent configurator, one call after    *)
(* another.  A configurator is an object of the heap that holds a copy of   *)
(* the configuration.                                                      *)

MaxSkipFunctions == 5
MaxConfigurators == 1

SkipPatternChoices == {".RequestID.func"}
SkipPackageChoices == {"internal/telemetry"}

\* ConfigureForApplication("github.com/acme/app")
ConfigureForAcme == ConfigureForApplicationOf({AcmePkg})

\* AddSkipPatterns(pattern) of a pattern not yet in the list
AddSkipPatterns ==
    \E pattern \in SkipPatternChoices :
        /\ Len(defaultConfig.SkipFunctions) < MaxSkipFunctions
        /\ pattern \notin Range(defaultConfig.SkipFunctions)
        /\ defaultConfig' = [defaultConfig EXCEPT !.SkipFunctions = Append(@, pattern)]
        /\ last' = [op |-> "AddSkipPatterns", patterns |-> <<pattern>>]
        /\ UNCHANGED <<defaultLogger, heap, origin, reqs>>

\* AddSkipPackages(pkg) of a package not yet in the list
AddSkipPackages ==
    \E pkg \in SkipPackageChoices :
        /\ Len(defaultConfig.SkipPackages) < MaxSkipPackages
        /\ pkg \notin Range(defaultConfig.SkipPackages)
        /\ defaultConfig' = [defaultConfig EXCEPT !.SkipPackages = Append(@, pkg)]
        /\ last' = [op |-> "AddSkipPackages", packages |-> <<pkg>>]
        /\ UNCHANGED <<defaultLogger, heap, origin, reqs>>

\* Configure(): a new configurator with a copy of the active configuration
Configure ==
    /\ Len(heap) < MaxConfigurators
    /\ heap' = Append(heap, [config |-> defaultConfig])
    /\ origin' = Append(origin, Origin("Configure", FALSE, ""))
    /\ last' = [op |-> "Configure", ret |-> Len(heap) + 1]
    /\ UNCHANGED <<defaultConfig, defaultLogger, reqs>>

\* c.SkipPattern(pattern)
SkipPattern ==
    \E c \in 1..Len(heap), pattern \in SkipPatternChoices :
        /\ Len(heap[c].config.SkipFunctions) < MaxSkipFunctions
        /\ pattern \notin Range(heap[c].config.SkipFunctions)
        /\ heap' = [heap EXCEPT ![c].config.SkipFunctions = Append(@, pattern)]
        /\ last' = [op |-> "SkipPattern", ptr |-> c, ret |-> c]
        /\ UNCHANGED <<defaultConfig, defaultLogger, origin, reqs>>

\* c.IncludePackage(pkg)
IncludePackage ==
    \E c \in 1..Len(heap), pkg \in {AcmePkg} :
        /\ pkg \notin Range(heap[c].config.IncludePackages)
        /\ heap' = [heap EXCEPT ![c].config.IncludePackages = Append(@, pkg)]
        /\ last' = [op |-> "IncludePackage", ptr |-> c, ret |-> c]
        /\ UNCHANGED <<defaultConfig, defaultLogger, origin, reqs>>

\* c.Apply()
Apply ==
    \E c \in 1..Len(heap) :
        /\ defaultConfig' = heap[c].config
        /\ last' = [op |-> "Apply", ptr |-> c]
        /\ UNCHANGED <<defaultLogger, heap, origin, reqs>>

NextConfigure ==
    \/ ConfigureForAcme
    \/ AddSkipPatterns
    \/ AddSkipPackages
    \/ Configure
    \/ SkipPattern
    \/ IncludePackage
    \/ Apply

SpecConfigure == Init /\ [][NextConfigure]_vars

----------------------------------------------------------------------------
(* The properties.                                                         *)

\* C1: for every panic recovered through HandlePanic, under every filter
\* configuration (the default one with empty IncludePackages included), the
\* function and the file:line stored in Details are those of the innermost
\* application frame: the first frame after the panic marker whose function
\* line passes the filter, with that frame's own location.
C1_PanicSiteIsInnermostApplicationFrame ==
    last.op = "HandlePanic" =>
        LET sc == last.scenario
            after == sc.runtime \o sc.chain \o sc.outer
            app == {i \in 1..Len(after) : isUserFunction(FuncLine(after[i]))}
        IN  app # {} =>
                LET f == after[CHOOSE i \in app : \A j \in app : i <= j]
                IN  /\ last.obj.Details.function = formatFunctionName(f.name)
                    /\ last.obj.Details.file = f.file \o ":" \o Itoa(f.line)

\* C2: with one application package in IncludePackages, the classification
\* accepts the frames of that package and of every sub-package of it, and
\* rejects the frames of otherlib.
C2_SubPackagesAreApplicationCode ==
    (last.op = "isUserFunction" /\ Len(defaultConfig.IncludePackages) = 1) =>
        LET app == defaultConfig.IncludePackages[1]
        IN  /\ (last.pkg = app \/ HasPrefix(last.pkg, app \o "/")) => last.verdict
            /\ last.pkg = "otherlib" => ~last.verdict

\* C3: for the trace of three runtime frames, one library frame and two
\* application frames, under a configuration that classifies just the two
\* application frames as application code, formatStackTraceArray returns
\* exactly the two application frames in their order, each as
\* "Func (file:line)", one entry per frame.
C3_CallChainIsTheApplicationFrames ==
    (/\ last.op = "formatStackTraceArray"
     /\ last.trace.name = "synthetic"
     /\ \A i \in 1..Len(last.trace.frames) :
            LET l == FuncLine(last.trace.frames[i])
            IN  (isUserFunction(l) /\ ~shouldSkipFunction(l))
                    <=> (last.trace.frames[i] \in Range(last.trace.app)))
    => last.chain = [i \in 1..Len(last.trace.app) |->
                        LET f == last.trace.app[i]
                        IN  formatFunctionName(f.name) \o " (" \o f.file \o ":"
                                \o Itoa(f.line) \o ")"]

\* C4: Wrap(err) and WrapWithMessage(err, msg) with a nil err return nil,
\* build no object and do not panic; with a non-nil err they return a new
\* SYSTEM error with Code 500 and Cause = err.
C4_WrapOfNilIsNil ==
    [][last'.op \in {"Wrap", "WrapWithMessage"} =>
          /\ ~last'.panicked
          /\ last'.err = NilError => (last'.ret = 0 /\ heap' = heap)
          /\ last'.err # NilError =>
                 /\ last'.ret = Len(heap) + 1
                 /\ Len(heap') = Len(heap) + 1
                 /\ SubSeq(heap', 1, Len(heap)) = heap
                 /\ heap'[last'.ret].Type = SystemError
                 /\ heap'[last'.ret].Code = 500
                 /\ heap'[last'.ret].Cause = last'.err]_vars

\* a wrap of a nil error has returned nil
C4_Witness ==
    /\ last.op \in {"Wrap", "WrapWithMessage"}
    /\ last.err = NilError
    /\ last.ret = 0

\* C5: a request whose handler returns Wrap(nil) or WrapWithMessage(nil, msg)
\* as its error result is a request without error: the middleware converts,
\* logs and responds nothing, and nothing panics.
C5_WrapOfNilIsNoError ==
    \A i \in 1..Len(reqs) :
        (reqs[i].handler.kind = "build" /\ reqs[i].handler.obj = NilObject)
            => reqs[i].events = <<>>

\* C6: ConvertToAppError(err, id) of an err that is an *AppError object
\* returns that same object, and the only change to the heap is the object's
\* RequestID, now id.
C6_ConvertKeepsTheObject ==
    [][(/\ last'.op = "ConvertToAppError"
        /\ last'.err.dyn = "*AppError"
        /\ last'.err.ptr > 0)
       => /\ ~last'.panicked
          /\ last'.ret = last'.err.ptr
          /\ heap' = [heap EXCEPT ![last'.err.ptr].RequestID = last'.requestID]]_vars

\* an object with Data and a severity override has been converted
C6_Witness ==
    /\ last.op = "ConvertToAppError"
    /\ last.err.dyn = "*AppError"
    /\ last.err.ptr > 0
    /\ last.before.RequestID = ""
    /\ last.before.Data = AgeData
    /\ last.before.logLevel = "warn"
    /\ heap[last.ret].RequestID = "req-1"

\* C7: for every request through the middleware: when the handler returns a
\* non-nil error or panics, exactly one StructuredError is produced, LogError
\* is called once for it and then one response is written for it; when the
\* handler returns nil, none of these happens; a panic is recovered; the
\* middleware returns nil.
C7_OneLogThenOneResponse ==
    \A i \in 1..Len(reqs) :
        LET r == reqs[i]
            Of(kinds) == {k \in 1..Len(r.events) : r.events[k].ev \in kinds}
            produced == {k \in Of({"ConvertToAppError", "HandlePanic"}) : r.events[k].ret > 0}
            logs == Of({"LogError"})
            responses == Of({"Respond"})
        IN  /\ r.ret = NilError
            /\ r.handler.kind = "panic" => Of({"recover"}) # {}
            /\ IF r.handler.kind = "panic" \/ r.err # NilError
               THEN /\ Cardinality(produced) = 1
                    /\ Cardinality(logs) = 1
                    /\ Cardinality(responses) = 1
                    /\ \A p \in produced, l \in logs, w \in responses :
                           /\ p < l
                           /\ l < w
                           /\ r.events[l].obj = r.events[p].ret
                           /\ r.events[w].obj = r.events[p].ret
               ELSE r.events = <<>>

\* one request whose handler panicked and one whose handler returned an error
C7_Witness ==
    /\ \E i \in 1..Len(reqs) : reqs[i].handler.kind = "panic" /\ Len(reqs[i].events) = 4
    /\ \E i \in 1..Len(reqs) : reqs[i].handler.kind = "return" /\ Len(reqs[i].events) = 3

\* C8: FormatErrorResponse returns exactly the keys "error" and "type", with
\* the Message and the kind of the error.
C8_PayloadHasTwoKeys ==
    last.op = "FormatErrorResponse" =>
        /\ DOMAIN last.payload = {"error", "type"}
        /\ last.payload.error = heap[last.ptr].Message
        /\ last.payload.type = heap[last.ptr].Type

\* the payload of an error that carries Details and a RequestID
C8_Witness ==
    /\ last.op = "FormatErrorResponse"
    /\ heap[last.ptr].Type = PanicError
    /\ heap[last.ptr].RequestID # ""

\* C9 as stated: for every construction operation, two errors that agree on
\* kind, status and caller-supplied message yield the identical payload,
\* whatever their cause, Details, Data and RequestID.
C9_PayloadIgnoresTheCause ==
    \A p, q \in 1..Len(heap) :
        (/\ heap[p].Type = heap[q].Type
         /\ heap[p].Code = heap[q].Code
         /\ origin[p].supplied = origin[q].supplied
         /\ origin[p].msg = origin[q].msg)
        => FormatErrorResponse(heap[p]) = FormatErrorResponse(heap[q])

\* C9: for the factories, WrapWithMessage and ConvertToAppError, two errors
\* that agree on kind, status and caller-supplied message yield the identical
\* payload, whatever their cause, Details, Data and RequestID.  (Wrap takes its
\* message from the cause and HandlePanic from the panic value.)
C9_PayloadIgnoresTheCauseUnlessWrapped ==
    \A p, q \in 1..Len(heap) :
        (/\ origin[p].op \notin {"Wrap", "HandlePanic"}
         /\ origin[q].op \notin {"Wrap", "HandlePanic"}
         /\ heap[p].Type = heap[q].Type
         /\ heap[p].Code = heap[q].Code
         /\ origin[p].supplied = origin[q].supplied
         /\ origin[p].msg = origin[q].msg)
        => FormatErrorResponse(heap[p]) = FormatErrorResponse(heap[q])

\* two errors of the same kind, status and message that differ in cause and
\* RequestID
C9_Witness ==
    \E p, q \in 1..Len(heap) :
        /\ origin[p].op = "ConvertToAppError"
        /\ origin[q].op \in {"ConvertToAppError", "NewSystemError"}
        /\ heap[p].Type = heap[q].Type
        /\ heap[p].Code = heap[q].Code
        /\ \/ heap[p].Cause # heap[q].Cause
           \/ heap[p].RequestID # heap[q].RequestID

SeverityOperation ==
    [trace |-> "Trace", debug |-> "Debug", info |-> "Info", warn |-> "Warn",
     error |-> "Error", panic |-> "Panic"]

\* C11: with a logger configured, LogError makes exactly one write call on
\* it, whatever the levels of the logger: the operation named by the
\* resolved severity when that is trace, debug, info, warn, error or panic,
\* the error operation otherwise, with the error's message.
C11_OneWriteCallAtTheResolvedSeverity ==
    (last.op = "LogError" /\ defaultLogger # NilLogger) =>
        LET e == heap[last.ptr]
            severity == GetLogLevel(e)
        IN  /\ Len(last.calls) = 1
            /\ last.calls[1].method =
                   IF severity \in DOMAIN SeverityOperation
                   THEN SeverityOperation[severity] ELSE "Error"
            /\ last.calls[1].message = e.Message

\* an error whose severity is none of the six has been logged through Error,
\* and one of severity debug through Debug in a build where Debug writes
\* nothing
C11_Witness ==
    /\ last.op = "LogError"
    /\ defaultLogger # NilLogger
    /\ \/ /\ GetLogLevel(heap[last.ptr]) = "fatal"
          /\ last.calls[1].method = "Error"
       \/ /\ GetLogLevel(heap[last.ptr]) = "debug"
          /\ ~defaultLogger.debug
          /\ last.calls[1].method = "Debug"
          /\ last.written.console = <<>>

\* the keys of the system metadata: the caller's location and, for a panic,
\* the recovered value and the call chain
SystemMetadataKeys == {"function", "file", "panic_value", "call_chain"}

\* C12: in the fields LogError passes to the logger the caller's data is
\* nested under "data", present iff Data is non-empty, and the top level
\* holds only error_type, path, the system metadata and "cause" (iff there
\* is a cause); a Validation error with data and no override is logged
\* through Warn with error_type "VALIDATION"; and no factory puts the
\* caller's data into the system metadata.
C12_SituationalDataOnlyUnderData ==
    /\ (last.op = "LogError" /\ defaultLogger # NilLogger) =>
           LET e == heap[last.ptr]
               fields == last.calls[1].fields
           IN  /\ ("data" \in DOMAIN fields) <=> (e.Data # NilMap)
               /\ e.Data # NilMap => fields.data = e.Data
               /\ \A k \in DOMAIN e.Data : k \notin DOMAIN fields
               /\ DOMAIN fields \subseteq
                      {"error_type", "path", "data", "cause"} \cup SystemMetadataKeys
               /\ ("cause" \in DOMAIN fields) <=> (e.Cause # NilError)
               /\ (e.Type = ValidationError /\ e.Data # NilMap /\ e.logLevel = "") =>
                      /\ last.calls[1].method = "Warn"
                      /\ fields.error_type = "VALIDATION"
    /\ last.op = "core.NewValidationError" =>
           /\ \A k \in DOMAIN last.details : k \notin DOMAIN last.obj.Details
           /\ DOMAIN last.obj.Details \subseteq SystemMetadataKeys

\* the level of the entry the logger writes for a severity: panic is written
\* as error, and so is a severity the library does not know
EntryLevel(severity) ==
    CASE severity = "trace" -> TraceLevel
      [] severity = "debug" -> DebugLevel
      [] severity = "info"  -> InfoLevel
      [] severity = "warn"  -> WarnLevel
      [] OTHER -> ErrorLevel

\* C13: with the default logger (console at warn, file at error) an error of
\* severity warn is written to the console only and one of severity error
\* or panic to both; and under every logger each sink records the entry iff
\* it exists and the entry's level is at or above the sink's own level,
\* whatever the other sink does.  A build without the tag debug writes no
\* entry for the severities debug and trace.
C13_EachSinkKeepsItsOwnThreshold ==
    (last.op = "LogError" /\ defaultLogger # NilLogger) =>
        LET severity == GetLogLevel(heap[last.ptr])
            level == EntryLevel(severity)
            w == last.written
        IN  /\ (severity \in {"debug", "trace"} /\ ~defaultLogger.debug) =>
                   (w.console = <<>> /\ w.file = <<>>)
            /\ (severity \in {"debug", "trace"} => defaultLogger.debug) =>
                   /\ (w.console # <<>>) <=>
                          /\ defaultLogger.consoleLogger # NoLogger
                          /\ defaultLogger.consoleLogger >= level
                   /\ (w.file # <<>>) <=>
                          /\ defaultLogger.fileLogger # NoLogger
                          /\ defaultLogger.fileLogger >= level
            /\ (defaultLogger.consoleLogger = WarnLevel
                   /\ defaultLogger.fileLogger = ErrorLevel) =>
                   /\ severity = "warn" => (w.console # <<>> /\ w.file = <<>>)
                   /\ severity \in {"error", "panic"} =>
                          (w.console # <<>> /\ w.file # <<>>)

\* under the default logger a Validation error overridden with
\* Level("error") has reached the file
C13_Witness ==
    /\ last.op = "LogError"
    /\ defaultLogger = InitLogger(DefaultLoggerOptions, FALSE)
    /\ heap[last.ptr].Type = ValidationError
    /\ heap[last.ptr].logLevel = "error"
    /\ last.written.console # <<>>
    /\ last.written.file # <<>>

\* C20 as stated: GetLogLevel right after Level(l) on the same error returns
\* l, whatever the error's kind and earlier overrides; Level(l) twice
\* leaves the error as Level(l) once; and nothing but Level changes the
\* override.
C20_LastOverrideWins ==
    [][/\ (last.op = "Level" /\ last'.op = "GetLogLevel" /\ last'.ptr = last.ptr) =>
              last'.level = last.level
       /\ (last.op = "Level" /\ last'.op = "Level" /\ last'.ptr = last.ptr
              /\ last'.level = last.level) => heap' = heap
       /\ last'.op # "Level" =>
              \A p \in 1..Len(heap) : heap'[p].logLevel = heap[p].logLevel]_vars

\* C20, amended: the same for every l but the empty string; Level("")
\* removes the override, and GetLogLevel then returns the default of the
\* error's kind.
C20_LastNonEmptyOverrideWins ==
    [][/\ (last.op = "Level" /\ last'.op = "GetLogLevel" /\ last'.ptr = last.ptr) =>
              last'.level = IF last.level # "" THEN last.level
                            ELSE IF heap[last.ptr].Type \in {ValidationError, AuthError}
                                 THEN "warn" ELSE "error"
       /\ (last.op = "Level" /\ last'.op = "Level" /\ last'.ptr = last.ptr
              /\ last'.level = last.level) => heap' = heap
       /\ last'.op # "Level" =>
              \A p \in 1..Len(heap) : heap'[p].logLevel = heap[p].logLevel]_vars

\* the severity of a System error overridden with "warn" has been resolved
C20_Witness ==
    /\ last.op = "GetLogLevel"
    /\ heap[last.ptr].Type = SystemError
    /\ heap[last.ptr].logLevel = "warn"
    /\ last.level = "warn"

\* a frame of the runtime or runtime/debug namespaces: its source is in the
\* runtime directory of the Go tree
IsRuntimeFrame(f) == HasPrefix(f.dir, GoRoot \o "/runtime")

\* an entry of a call chain that shows frame f: it starts with the frame's
\* function name or holds the frame's file:line
ShowsFrame(entry, f) ==
    \/ HasPrefix(entry, formatFunctionName(f.name) \o " (")
    \/ Contains(entry, f.file \o ":" \o Itoa(f.line))

\* the frames of the trace HandlePanic captures while scenario s is recovered
ScenarioFrames(s) ==
    <<FStack, FLocation, FChain, FHandlePanic, s.recover, FPanic>>
        \o s.runtime \o s.chain \o s.outer

\* C14: under every filter configuration no frame of the runtime or
\* runtime/debug namespaces is classified as application code, is reported
\* as the panic site or is shown by an entry of a call chain.
C14_NoRuntimeFrameInOutput ==
    /\ (last.op = "isUserFunction" /\ last.pkg \in {"runtime", "runtime/debug"}) =>
           ~last.verdict
    /\ last.op = "formatStackTraceArray" =>
           \A f \in Range(last.trace.frames) : IsRuntimeFrame(f) =>
               \A i \in 1..Len(last.chain) : ~ShowsFrame(last.chain[i], f)
    /\ last.op = "HandlePanic" =>
           \A f \in Range(ScenarioFrames(last.scenario)) : IsRuntimeFrame(f) =>
               /\ last.obj.Details.file # f.file \o ":" \o Itoa(f.line)
               /\ \A i \in 1..Len(last.obj.Details.call_chain) :
                      ~ShowsFrame(last.obj.Details.call_chain[i], f)

\* a function line matches a package entry as isUserFunction matches it: the
\* entry followed by a dot is a prefix or a substring of the line
MatchesPackage(line, pkg) == HasPrefix(line, pkg \o ".") \/ Contains(line, pkg \o ".")

\* C15: a frame whose function line matches an entry of SkipPackages is
\* rejected, also when IncludePackages is set and the line matches one of
\* its entries; with IncludePackages set a frame is accepted only if it
\* matches an include entry and no skip entry.
C15_SkipPackagesRejectFirst ==
    last.op = "isUserFunction" =>
        LET skipped == \E pkg \in Range(defaultConfig.SkipPackages) :
                           MatchesPackage(last.line, pkg)
            included == \E pkg \in Range(defaultConfig.IncludePackages) :
                            MatchesPackage(last.line, pkg)
        IN  /\ skipped => ~last.verdict
            /\ (Len(defaultConfig.IncludePackages) > 0 /\ last.verdict) =>
                   (included /\ ~skipped)

\* the panic site stored in obj is the first of frames that the
\* classification accepts, or the unknown sentinel when it accepts none
SiteIsFirstApplicationFrame(obj, frames) ==
    LET app == {i \in 1..Len(frames) : isUserFunction(FuncLine(frames[i]))}
    IN  IF app = {}
        THEN obj.Details.function = "unknown" /\ obj.Details.file = "unknown:0"
        ELSE LET f == frames[CHOOSE i \in app : \A j \in app : i <= j]
             IN  /\ obj.Details.function = formatFunctionName(f.name)
                 /\ obj.Details.file = f.file \o ":" \o Itoa(f.line)

\* C16: the panic-site finder returns the first application frame after the
\* panic marker when the trace has one, the first application frame of the
\* whole trace when it has none, and the unknown sentinel only when no
\* eligible frame is application code.
C16_PanicSiteScan ==
    /\ last.op = "HandlePanic" =>
           SiteIsFirstApplicationFrame(last.obj,
               last.scenario.runtime \o last.scenario.chain \o last.scenario.outer)
    /\ last.op = "HandlePanicLater" =>
           SiteIsFirstApplicationFrame(last.obj,
               <<FStack, FLocation, FHandlePanic>> \o last.frames)

\* the function part of an entry "function (file:line)" of a call chain
EntryFunction(entry) ==
    IF Index(entry, " (") >= 0 THEN Slice(entry, 0, Index(entry, " (")) ELSE entry

ConstructionOps ==
    {"NewBusinessError", "NewSystemError", "NewValidationError", "NewAuthError",
     "NewExternalError", "Wrap", "WrapWithMessage", "HandlePanic", "ConvertToAppError"}

\* C18: every error built by a factory, by Wrap or WrapWithMessage, by
\* HandlePanic or by ConvertToAppError from an error that is no *AppError
\* has Details with non-empty "function" and "file".
C18_EveryErrorHasItsLocation ==
    \A p \in 1..Len(heap) : origin[p].op \in ConstructionOps =>
        /\ "function" \in DOMAIN heap[p].Details
        /\ "file" \in DOMAIN heap[p].Details
        /\ heap[p].Details.function # ""
        /\ heap[p].Details.file # ""

\* C19: the status LogAndRespond sets on the response is the Code of the
\* error, and it is an HTTP status, 100 to 599, whatever code the caller
\* passed to the factory.
C19_StatusIsAValidHTTPStatus ==
    last.op = "LogAndRespond" =>
        LET respond == last.events[Len(last.events)]
        IN  /\ respond.ev = "Respond"
            /\ respond.status = heap[last.ptr].Code
            /\ respond.status \in 100..599

\* the "function" and "file" entries of Details are those of before
KeepsLocation(e, before) ==
    \A k \in {"function", "file"} :
        /\ (k \in DOMAIN e.Details) <=> (k \in DOMAIN before.Details)
        /\ k \in DOMAIN before.Details => e.Details[k] = before.Details[k]

\* C21: WithData(d) leaves Data equal to d and the call chain as it was;
\* WithCallChain() leaves Details["call_chain"] equal to the built call
\* chain and Data as it was; both keep the "function" and "file" entries,
\* for an error without Details too.
C21_DataAndCallChainDoNotCollide ==
    /\ last.op = "WithData" =>
           LET e == heap[last.ptr] IN
           /\ e.Data = last.data
           /\ ("call_chain" \in DOMAIN e.Details)
                  <=> ("call_chain" \in DOMAIN last.before.Details)
           /\ "call_chain" \in DOMAIN e.Details =>
                  e.Details.call_chain = last.before.Details.call_chain
           /\ KeepsLocation(e, last.before)
    /\ last.op = "WithCallChain" =>
           LET e == heap[last.ptr] IN
           /\ "call_chain" \in DOMAIN e.Details
           /\ e.Details.call_chain = last.chain
           /\ e.Data = last.before.Data
           /\ "call_chain" \notin DOMAIN e.Data
           /\ KeepsLocation(e, last.before)

\* an error built without Details carries the data attached first and the
\* call chain attached after it
C21_Witness ==
    /\ last.op = "WithCallChain"
    /\ origin[last.ptr].op = "ConvertToAppError"
    /\ last.before.Details = NilMap
    /\ heap[last.ptr].Data = AgeData
    /\ heap[last.ptr].Details.call_chain = last.chain
    /\ last.chain # <<>>

\* C22: for every error or panic the middleware handles, every record LogError
\* passes to the logger carries the correlation id of the request in the
\* field "request_id", and the
\* payload written to the client does not.
C22_RequestIDInTheLogOnly ==
    \A i \in 1..Len(reqs) :
        \A k \in 1..Len(reqs[i].events) :
            LET e == reqs[i].events[k] IN
            /\ e.ev = "LogError" =>
                   \A c \in 1..Len(e.calls) :
                       /\ "request_id" \in DOMAIN e.calls[c].fields
                       /\ e.calls[c].fields.request_id = RequestIDOf(reqs[i])
            /\ e.ev = "Respond" =>
                   /\ "request_id" \notin DOMAIN e.body
                   /\ \A f \in DOMAIN e.body : e.body[f] # RequestIDOf(reqs[i])

\* C23: in every interleaving of the requests, the error object a request
\* logs and answers with is the one its own conversion produced, carrying
\* its own correlation id, and its log record and response are those of
\* that object.
C23_RequestsDoNotInterfere ==
    \A i \in 1..Len(reqs) :
        LET r == reqs[i] IN
        /\ r.pc \in {"LogError", "Respond", "done"} =>
               /\ r.converted.RequestID = RequestIDOf(r)
               /\ heap[r.obj].RequestID = RequestIDOf(r)
               /\ heap[r.obj] = r.converted
        /\ r.pc \in {"Respond", "done"} =>
               /\ r.logged = r.converted
               /\ r.calls = LogError(defaultLogger, r.converted, r.path)
        /\ r.pc = "done" =>
               /\ r.status = r.converted.Code
               /\ r.body = FormatErrorResponse(r.converted)

\* the call-chain entry built from the function line of frame f and the
\* location line that follows it
EntryOfFrame(f) ==
    formatFunctionName(CutParams(FuncLine(f))) \o " (" \o f.file \o ":" \o Itoa(f.line) \o ")"

\* C24: every entry of a call chain is built from the function line of one
\* frame of the trace and the location line of that same frame, so that no
\* goroutine header or location line heads an entry and no function line
\* stands in the place of a location; the panic site is the unknown sentinel
\* or the function and location of one frame.
C24_OnlyFunctionLinesAreFrames ==
    /\ last.op = "formatStackTraceArray" =>
           \A k \in 1..Len(last.chain) :
               \E i \in 1..Len(last.trace.frames) :
                   last.chain[k] = EntryOfFrame(last.trace.frames[i])
    /\ last.op = "HandlePanic" =>
           LET sc == last.scenario
               frames == sc.runtime \o sc.chain \o sc.outer
               d == last.obj.Details
           IN  \/ d.function = "unknown" /\ d.file = "unknown:0"
               \/ \E i \in 1..Len(frames) :
                      /\ d.function = formatFunctionName(CutParams(FuncLine(frames[i])))
                      /\ d.file = frames[i].file \o ":" \o Itoa(frames[i].line)

\* the qualified name of frame f as the configuration asks for it: whole
\* when ShowFullPath is set, the text after the last "/" otherwise
ReportedName(f) ==
    IF defaultConfig.ShowFullPath \/ LastIndex(f.name, "/") < 0
    THEN f.name
    ELSE Slice(f.name, LastIndex(f.name, "/") + 1, Len(f.name))

Segments(name) == Split(name, ".")

\* C26: a function line is detected as an anonymous middleware wrapper
\* exactly when its name contains ".func" and either the qualified name has
\* four or more dot-separated segments of which a later one contains the
\* anonymous marker, or the name matches one of the middleware patterns; a
\* frame is left out of the call chain exactly when it is detected or its
\* line contains a configured skip-function pattern.
C26_MiddlewareWrapperDetection ==
    last.op = "isMiddlewareAnonymousFunc" =>
        LET name == last.frame.name
            segs == Segments(name)
            structure == /\ Len(segs) >= 4
                         /\ \E j \in 2..Len(segs) : Contains(segs[j], "func")
            pattern == \E k \in 1..Len(middlewarePatterns) :
                           Contains(name, middlewarePatterns[k])
        IN  /\ last.verdict <=> (Contains(name, ".func") /\ (structure \/ pattern))
            /\ ~Contains(name, ".func") => ~last.verdict
            /\ last.skipped <=>
                   \/ last.verdict
                   \/ \E s \in Range(defaultConfig.SkipFunctions) :
                          Contains(FuncLine(last.frame), s)

\* the fields of e that no mutator sets are those of before
KeepsIdentity(e, before) ==
    /\ e.Type = before.Type
    /\ e.Code = before.Code
    /\ e.Message = before.Message
    /\ e.Cause = before.Cause
    /\ e.RequestID = before.RequestID
    /\ KeepsLocation(e, before)

\* C27: each fluent mutator returns the object it was called on and changes
\* its own field only: WithData replaces Data by the given map, Level sets
\* the severity override, WithCallChain sets Details["call_chain"]; no other
\* object changes; Type, Code, Message, Cause, RequestID and the "function"
\* and "file" entries stay what they were; LogError and FormatErrorResponse
\* change no field of any error.
C27_MutatorsChangeOnlyTheirOwnField ==
    [][/\ last'.op \in {"WithData", "Level", "WithCallChain"} =>
              /\ last'.ret = last'.ptr
              /\ Len(heap') = Len(heap)
              /\ \A q \in 1..Len(heap) : q # last'.ptr => heap'[q] = heap[q]
              /\ KeepsIdentity(heap'[last'.ptr], heap[last'.ptr])
       /\ last'.op = "WithData" =>
              heap'[last'.ptr] = [heap[last'.ptr] EXCEPT !.Data = last'.data]
       /\ last'.op = "Level" =>
              heap'[last'.ptr] = [heap[last'.ptr] EXCEPT !.logLevel = last'.level]
       /\ last'.op = "WithCallChain" =>
              LET e == heap'[last'.ptr]
                  before == heap[last'.ptr]
              IN  /\ e.Data = before.Data
                  /\ e.logLevel = before.logLevel
                  /\ DOMAIN e.Details = DOMAIN before.Details \cup {"call_chain"}
                  /\ e.Details.call_chain = last'.chain
                  /\ \A k \in DOMAIN before.Details \ {"call_chain"} :
                         e.Details[k] = before.Details[k]
       /\ last'.op \in {"LogError", "FormatErrorResponse"} => heap' = heap
      ]_vars

\* an error that went through the three mutators, its data replaced once,
\* is formatted for the client with the kind, code and message it was built
\* with
C27_Witness ==
    /\ last.op = "FormatErrorResponse"
    /\ origin[last.ptr].op = "NewBusinessError"
    /\ heap[last.ptr] =
           [NewBusinessError(404, "Product not found", SiteReserve)
                EXCEPT !.Data = ProductData,
                       !.logLevel = "warn",
                       !.Details = [call_chain |-> formatStackTraceArray(HandlerStack)] @@ @]

\* every entry of the three lists of configuration a is in b
ConfigWithin(a, b) ==
    /\ Range(a.SkipFunctions) \subseteq Range(b.SkipFunctions)
    /\ Range(a.SkipPackages) \subseteq Range(b.SkipPackages)
    /\ Range(a.IncludePackages) \subseteq Range(b.IncludePackages)

\* C28: no configuration call loses an entry: after each call the active
\* configuration holds every skip pattern, skip package and include package
\* it held before, together with what the call adds (the patterns or
\* packages given, the application package, the entries of the configurator
\* that is applied), also when the active configuration was added to
\* between Configure() and Apply().
C28_ConfigurationChangesAreNeverLost ==
    [][/\ ConfigWithin(defaultConfig, defaultConfig')
       /\ last'.op = "AddSkipPatterns" =>
              Range(last'.patterns) \subseteq Range(defaultConfig'.SkipFunctions)
       /\ last'.op = "AddSkipPackages" =>
              Range(last'.packages) \subseteq Range(defaultConfig'.SkipPackages)
       /\ last'.op = "ConfigureForApplication" =>
              last'.appPackage \in Range(defaultConfig'.IncludePackages)
       /\ last'.op = "Apply" => ConfigWithin(heap[last'.ptr].config, defaultConfig')
      ]_vars

\* C29: LogError of an error whose resolved severity is debug or trace calls
\* the Debug or the Trace operation of the logger in every build.  In a
\* build without the tag debug no sink receives an entry, whatever the
\* levels of the sinks; in a build with the tag each sink that exists and
\* whose level admits the severity receives the one entry, and no other
\* sink receives anything.
C29_DebugAndTraceOnlyInDebugBuilds ==
    (/\ last.op = "LogError"
     /\ defaultLogger # NilLogger
     /\ GetLogLevel(heap[last.ptr]) \in {"debug", "trace"}) =>
        LET severity == GetLogLevel(heap[last.ptr])
            level == IF severity = "debug" THEN DebugLevel ELSE TraceLevel
            Admits(sink) == sink # NoLogger /\ sink >= level
            Expected(sink) ==
                IF defaultLogger.debug /\ Admits(sink)
                THEN <<[level |-> severity, message |-> heap[last.ptr].Message,
                        fields |-> last.calls[1].fields]>>
                ELSE <<>>
        IN  /\ Len(last.calls) = 1
            /\ last.calls[1].method = (IF severity = "debug" THEN "Debug" ELSE "Trace")
            /\ last.written.console = Expected(defaultLogger.consoleLogger)
            /\ last.written.file = Expected(defaultLogger.fileLogger)

\* in a build without the tag debug, with both sinks at level trace, an
\* error of severity trace went through Trace and reached no sink
C29_Witness ==
    /\ last.op = "LogError"
    /\ defaultLogger # NilLogger
    /\ ~defaultLogger.debug
    /\ defaultLogger.consoleLogger = TraceLevel
    /\ defaultLogger.fileLogger = TraceLevel
    /\ GetLogLevel(heap[last.ptr]) = "trace"
    /\ last.calls[1].method = "Trace"
    /\ last.written = [console |-> <<>>, file |-> <<>>]

\* C30: while no logger is set (SetLogger was not called, or was called with
\* nil), LogError makes no call and writes nothing, and LogAndRespond still
\* answers exactly once, after the call of LogError, with the Code of the
\* error as status and the payload of the two fields "error" and "type".
C30_NoLoggerStillResponds ==
    defaultLogger = NilLogger =>
        /\ last.op = "LogError" =>
               /\ last.calls = <<>>
               /\ last.written = [console |-> <<>>, file |-> <<>>]
        /\ last.op = "LogAndRespond" =>
               LET e == heap[last.ptr]
                   responses == {k \in 1..Len(last.events) : last.events[k].ev = "Respond"}
               IN  /\ Len(last.events) = 2
                   /\ last.events[1].ev = "LogError"
                   /\ last.events[1].calls = <<>>
                   /\ responses = {2}
                   /\ last.events[2].status = e.Code
                   /\ last.events[2].body = [error |-> e.Message, type |-> e.Type]

\* with no logger set, a Validation error went through LogAndRespond: no
\* call was made on a logger and the answer has status 400
C30_Witness ==
    /\ defaultLogger = NilLogger
    /\ last.op = "LogAndRespond"
    /\ heap[last.ptr].Type = ValidationError
    /\ last.events[1].calls = <<>>
    /\ last.events[2].status = 400
    /\ DOMAIN last.events[2].body = {"error", "type"}

====
